---- MODULE Spec2Model ----
(***************************************************************************)
(* Intelligence Core of vas-vector-analytical-systems: prediction          *)
(* snapshots and their validation, the signal-ingestion registry with its  *)
(* rate limiter, the dataset-type registry and the train route.            *)
(*                                                                         *)
(* Numbers are fixed-point integers in thousandths (0.7 is 700).  Times    *)
(* are milliseconds of one clock.  A handler is a process: each of its     *)
(* awaits ends a step, so the steps of two handlers interleave exactly     *)
(* where the event loop lets them.                                         *)
(***************************************************************************)
EXTENDS Integers, Sequences, FiniteSets, TLC

VARIABLES
    clock,                 \* the wall clock, new Date() / now(), in ms
    ticks,                 \* how often the clock has advanced (bounds the model)
    modelSnapshots,        \* table model_snapshots, in insertion order; id = index
    predictionLogs,        \* table prediction_logs, in insertion (createdAt) order
    routesRegistered,      \* registerIntelligenceRoutes has returned
    importState,           \* the import("./signal-sources") promise
    signalSourceRegistry,  \* Map name -> registration, as its entries in insertion order
    lastFetchedMap,        \* Map rate-limit key -> time of the last stored fetch,
                           \* as a function (its order is never read)
    externalSignals,       \* table external_signals, in insertion order
    datasetTypeRegistry,   \* Map datasetType -> registration, entries in insertion order
    datasets,              \* table datasets: datasetId -> row
    datasetRecords,        \* table dataset_records: per datasetId, its rows
    patternModels,         \* table pattern_models, in insertion (createdAt) order
    crossLayerPatterns,    \* table cross_layer_patterns, in insertion order
    pc,                    \* per handler: the await it is suspended at, or "idle"
    local,                 \* per handler: the locals that live across its awaits
    resp                   \* per handler: what its last request answered

vars == <<clock, ticks, modelSnapshots, predictionLogs, routesRegistered,
          importState, signalSourceRegistry, lastFetchedMap, externalSignals,
          datasetTypeRegistry, datasets, datasetRecords, patternModels,
          crossLayerPatterns, pc, local, resp>>

snapshotVars == <<modelSnapshots, predictionLogs>>
signalVars == <<routesRegistered, importState, signalSourceRegistry,
                lastFetchedMap, externalSignals>>
trainVars == <<datasets, datasetRecords, patternModels>>
registryVars == <<datasetTypeRegistry, crossLayerPatterns>>
nonSnapshotVars == <<signalVars, trainVars, registryVars>>
nonSignalVars == <<snapshotVars, trainVars, registryVars>>
nonTrainVars == <<snapshotVars, signalVars, registryVars>>

----------------------------------------------------------------------------
(* Bounds of the model *)

MaxSnapshots == 2
MaxLogs == 2
MaxTicks == 1
MaxSignals == 2
MaxModels == 2

Procs == {"h1", "h2"}

NoLocal == [op |-> "none"]
NoResp == [status |-> "none"]

Null == "null"

\* The call returns `value`, and leaves the caller's arguments as `args`.
Returns(p, args, value) ==
    /\ pc' = [pc EXCEPT ![p] = "returned"]
    /\ local' = [local EXCEPT ![p] = args]
    /\ resp' = [resp EXCEPT ![p] = [status |-> "returned", value |-> value]]
    /\ UNCHANGED <<clock, ticks, snapshotVars, signalVars, trainVars,
                   registryVars>>

\* A timestamp column without a value.
NullTime == 0 - 1

----------------------------------------------------------------------------
(* Values *)

\* A `real` column holds a 4-byte float: a double written to it comes back
\* rounded to the coarser grid, its sign kept.  Here the double grid is the
\* integers and the float grid the even integers.
Real32(v) ==
    LET magnitude == IF v < 0 THEN 0 - v ELSE v
        rounded == 2 * ((magnitude + 1) \div 2)
    IN IF v < 0 THEN 0 - rounded ELSE rounded

Abs(v) == IF v < 0 THEN -v ELSE v

\* The tiers with 0.7 in top and 0.3 in low.
classifyTierInclusive(value) ==
    IF value >= 700 THEN "top"
    ELSE IF value <= 300 THEN "low"
    ELSE "mid"

classifyTier(value) ==
    IF value > 700 THEN "top"
    ELSE IF value < 300 THEN "low"
    ELSE "mid"

\* crypto.createHash("sha256").update(JSON.stringify({...})).digest("hex"):
\* SHA-256 is taken as injective on the serialised object, so the digest is
\* represented by the object it was computed over.
Sha256(featureVector, coefficients, predictedValue, timestamp) ==
    [featureVector |-> featureVector, coefficients |-> coefficients,
     predictedValue |-> predictedValue, timestamp |-> timestamp]

DatasetIds == {"d1", "d2"}

\* The argument lists createPredictionSnapshot is called with: one whose
\* numbers a `real` column holds exactly, one whose numbers it rounds.
SnapshotInputs ==
    {[datasetId |-> "d1", modelId |-> "m1", featureVector |-> <<0>>,
      coefficients |-> <<500>>, predictedValue |-> 200, predictedTier |-> "low",
      confidence |-> 900],
     [datasetId |-> "d2", modelId |-> "m2", featureVector |-> <<1000>>,
      coefficients |-> <<701>>, predictedValue |-> 701, predictedTier |-> "top",
      confidence |-> 901]}
ActualValues == {800}
SnapshotIds == 1..MaxSnapshots

----------------------------------------------------------------------------
(* The clock *)

\* Time passes between any two steps; by how much is not the program's choice.
ClockSteps == {1}

Advance(d) ==
    /\ ticks < MaxTicks
    /\ clock' = clock + d
    /\ ticks' = ticks + 1
    /\ UNCHANGED <<snapshotVars, nonSnapshotVars, pc, local, resp>>

----------------------------------------------------------------------------
(* prediction.ts: createPredictionSnapshot *)

\* The row the insert of createPredictionSnapshot stores: the values({...})
\* of the call, the column defaults of model_snapshots for the rest.
SnapshotRow(l, now) ==
    [datasetId |-> l.datasetId,
     modelId |-> l.modelId,
     featureVector |-> l.featureVector,
     coefficientsUsed |-> l.coefficients,
     predictedValue |-> Real32(l.predictedValue),
     predictedTier |-> l.predictedTier,
     confidence |-> Real32(l.confidence),
     hashSignature |-> l.hashSignature,
     uploadConfirmed |-> FALSE,
     uploadConfirmedAt |-> NullTime,
     performanceTrackingStarted |-> FALSE,
     isLocked |-> TRUE,
     createdAt |-> now]

\* Up to the await: the timestamp is read, the hash computed, the insert issued.
CreateSnapshotCall(p, in) ==
    /\ pc[p] = "idle"
    /\ Len(modelSnapshots) + Cardinality({q \in Procs : pc[q] = "snapshot_insert"}) < MaxSnapshots
    /\ pc' = [pc EXCEPT ![p] = "snapshot_insert"]
    /\ local' = [local EXCEPT ![p] =
                    [op |-> "createPredictionSnapshot",
                     datasetId |-> in.datasetId, modelId |-> in.modelId,
                     featureVector |-> in.featureVector,
                     coefficients |-> in.coefficients,
                     predictedValue |-> in.predictedValue,
                     predictedTier |-> in.predictedTier,
                     confidence |-> in.confidence,
                     hashSignature |-> Sha256(in.featureVector, in.coefficients,
                                              in.predictedValue, clock)]]
    /\ resp' = [resp EXCEPT ![p] = NoResp]
    /\ UNCHANGED <<clock, ticks, modelSnapshots, predictionLogs, nonSnapshotVars>>

\* The database runs the insert; .returning() gives the stored row back.
CreateSnapshotInsert(p) ==
    /\ pc[p] = "snapshot_insert"
    /\ modelSnapshots' = Append(modelSnapshots, SnapshotRow(local[p], clock))
    /\ pc' = [pc EXCEPT ![p] = "idle"]
    /\ local' = [local EXCEPT ![p] = NoLocal]
    /\ resp' = [resp EXCEPT ![p] =
                   [status |-> "snapshot"]]
    /\ UNCHANGED <<clock, ticks, predictionLogs, nonSnapshotVars>>

----------------------------------------------------------------------------
(* prediction.ts: confirmUpload *)

ConfirmedRowToggles(s, now) ==
    [s EXCEPT !.uploadConfirmed = ~s.uploadConfirmed,
              !.uploadConfirmedAt = now,
              !.performanceTrackingStarted = TRUE]

\* .set({uploadConfirmed: true, uploadConfirmedAt: new Date(),
\*       performanceTrackingStarted: true})
ConfirmedRow(s, now) ==
    [s EXCEPT !.uploadConfirmed = TRUE,
              !.uploadConfirmedAt = now,
              !.performanceTrackingStarted = TRUE]

\* One UPDATE ... WHERE id = snapshotId RETURNING *; the route answers 404
\* when no row came back.
ConfirmUpload(p, snapshotId) ==
    /\ pc[p] = "idle"
    /\ IF snapshotId \in DOMAIN modelSnapshots
       THEN /\ modelSnapshots' = [modelSnapshots EXCEPT ![snapshotId] =
                                     ConfirmedRow(modelSnapshots[snapshotId], clock)]
            /\ resp' = [resp EXCEPT ![p] =
                           [status |-> "confirmed"]]
       ELSE /\ UNCHANGED modelSnapshots
            /\ resp' = [resp EXCEPT ![p] =
                           [status |-> "404", error |-> "Snapshot not found"]]
    /\ UNCHANGED <<clock, ticks, predictionLogs, nonSnapshotVars, pc, local>>

----------------------------------------------------------------------------
(* routes.ts POST /validate/:snapshotId and prediction.ts: validatePrediction *)

\* The values({...}) of the insert into prediction_logs; error and
\* absoluteError are `real` columns.
PredictionLogRow(snapshotId, snapshot, actualValue, now) ==
    LET predicted == snapshot.predictedValue
        error == predicted - actualValue
        actualTier == classifyTier(actualValue)
        storedTier == IF snapshot.predictedTier \in {Null, ""}
                      THEN classifyTier(predicted)
                      ELSE snapshot.predictedTier
    IN [snapshotId |-> snapshotId,
        datasetId |-> snapshot.datasetId,
        modelId |-> IF snapshot.modelId \in {Null, ""} THEN "" ELSE snapshot.modelId,
        predictedValue |-> Real32(predicted),
        predictedTier |-> snapshot.predictedTier,
        actualValue |-> Real32(actualValue),
        actualTier |-> actualTier,
        error |-> Real32(error),
        absoluteError |-> Real32(Abs(error)),
        directionallyCorrect |-> \/ (predicted >= 500 /\ actualValue >= 500)
                                 \/ (predicted < 500 /\ actualValue < 500),
        tierCorrect |-> (storedTier = actualTier),
        validatedAt |-> now]

\* The route without an actualValue in the body: 400, nothing is called.
ValidateCallWithoutValue(p, snapshotId) ==
    /\ pc[p] = "idle"
    /\ resp' = [resp EXCEPT ![p] =
                   [status |-> "400", error |-> "actualValue is required"]]
    /\ UNCHANGED <<clock, ticks, modelSnapshots, predictionLogs, nonSnapshotVars, pc, local>>

\* The route with an actualValue: validatePrediction is entered and its
\* select issued.
ValidateCall(p, snapshotId, actualValue) ==
    /\ pc[p] = "idle"
    /\ Len(predictionLogs)
         + Cardinality({q \in Procs : pc[q] \in {"validate_select", "validate_insert"}})
         < MaxLogs
    /\ pc' = [pc EXCEPT ![p] = "validate_select"]
    /\ local' = [local EXCEPT ![p] =
                    [op |-> "validatePrediction",
                     snapshotId |-> snapshotId, actualValue |-> actualValue]]
    /\ resp' = [resp EXCEPT ![p] = NoResp]
    /\ UNCHANGED <<clock, ticks, modelSnapshots, predictionLogs, nonSnapshotVars>>

\* validatePrediction without its `if (!snapshot) throw`: reading
\* snapshot.predictedValue of undefined throws a TypeError instead.
ValidateSelectUnchecked(p) ==
    /\ pc[p] = "validate_select"
    /\ IF local[p].snapshotId \in DOMAIN modelSnapshots
       THEN /\ pc' = [pc EXCEPT ![p] = "validate_insert"]
            /\ local' = [local EXCEPT ![p] =
                            [op |-> "validatePrediction",
                             snapshotId |-> local[p].snapshotId,
                             actualValue |-> local[p].actualValue,
                             row |-> PredictionLogRow(local[p].snapshotId,
                                        modelSnapshots[local[p].snapshotId],
                                        local[p].actualValue, clock)]]
            /\ UNCHANGED resp
       ELSE /\ pc' = [pc EXCEPT ![p] = "idle"]
            /\ local' = [local EXCEPT ![p] = NoLocal]
            /\ resp' = [resp EXCEPT ![p] =
                           [status |-> "500",
                            error |-> "Cannot read properties of undefined"]]
    /\ UNCHANGED <<clock, ticks, modelSnapshots, predictionLogs, nonSnapshotVars>>

\* The select returns; without a row the function throws and the route
\* answers 500 with the message, else the log row is computed and its
\* insert issued.
ValidateSelect(p) ==
    /\ pc[p] = "validate_select"
    /\ IF local[p].snapshotId \in DOMAIN modelSnapshots
       THEN /\ pc' = [pc EXCEPT ![p] = "validate_insert"]
            /\ local' = [local EXCEPT ![p] =
                            [op |-> "validatePrediction",
                             snapshotId |-> local[p].snapshotId,
                             actualValue |-> local[p].actualValue,
                             row |-> PredictionLogRow(local[p].snapshotId,
                                        modelSnapshots[local[p].snapshotId],
                                        local[p].actualValue, clock)]]
            /\ UNCHANGED resp
       ELSE /\ pc' = [pc EXCEPT ![p] = "idle"]
            /\ local' = [local EXCEPT ![p] = NoLocal]
            /\ resp' = [resp EXCEPT ![p] =
                           [status |-> "500", error |-> "Snapshot not found"]]
    /\ UNCHANGED <<clock, ticks, modelSnapshots, predictionLogs, nonSnapshotVars>>

\* The database runs the insert; the function returns the log.
ValidateInsert(p) ==
    /\ pc[p] = "validate_insert"
    /\ predictionLogs' = Append(predictionLogs,
                                local[p].row)
    /\ pc' = [pc EXCEPT ![p] = "idle"]
    /\ local' = [local EXCEPT ![p] = NoLocal]
    /\ resp' = [resp EXCEPT ![p] =
                   [status |-> "validated"]]
    /\ UNCHANGED <<clock, ticks, modelSnapshots, nonSnapshotVars>>

----------------------------------------------------------------------------
(* signal-ingestion.ts: the registry and the rate limiter *)

HourMs == 60 * 60 * 1000
DayMs == 24 * 60 * 60 * 1000
WeekMs == 7 * 24 * 60 * 60 * 1000

\* A JavaScript Map under key: set(key, value) replaces the value of an
\* entry in place and appends a new entry otherwise.
MapHas(entries, key) == \E i \in DOMAIN entries : entries[i].key = key

MapGet(entries, key) ==
    entries[CHOOSE i \in DOMAIN entries : entries[i].key = key].value

MapSetAppends(entries, key, value) ==
    Append(entries, [key |-> key, value |-> value])

MapSet(entries, key, value) ==
    IF MapHas(entries, key)
    THEN [i \in DOMAIN entries |->
             IF entries[i].key = key
             THEN [key |-> key, value |-> value]
             ELSE entries[i]]
    ELSE Append(entries, [key |-> key, value |-> value])

getRateLimitKey(sourceName, keyword) == sourceName \o ":" \o keyword

getUpdateFrequencyMs(frequency) ==
    CASE frequency = "hourly" -> HourMs
      [] frequency = "daily" -> DayMs
      [] frequency = "weekly" -> WeekMs

isRateLimited(sourceName, keyword, updateFrequency) ==
    LET key == getRateLimitKey(sourceName, keyword)
    IN IF key \notin DOMAIN lastFetchedMap
       THEN FALSE
       ELSE clock - lastFetchedMap[key] < getUpdateFrequencyMs(updateFrequency)

getSignalSource(name) ==
    IF MapHas(signalSourceRegistry, name)
    THEN MapGet(signalSourceRegistry, name)
    ELSE [name |-> Null]

\* getAllSignalSources(): name, layer and updateFrequency of every entry.
getAllSignalSources ==
    [i \in DOMAIN signalSourceRegistry |->
        [name |-> signalSourceRegistry[i].key,
         layer |-> signalSourceRegistry[i].value.layer,
         updateFrequency |-> signalSourceRegistry[i].value.updateFrequency]]

\* registerSignalSource(config)
RegisterSignalSource(config) ==
    /\ signalSourceRegistry' = MapSet(signalSourceRegistry, config.name, config)
    /\ UNCHANGED <<clock, ticks, nonSignalVars, routesRegistered, importState,
                   lastFetchedMap, externalSignals, pc, local, resp>>

\* signal-sources.ts: what registerWikipediaSource ... registerEBaySource
\* register, in the order registerAllSignalSources calls them.
BuiltinSources ==
    <<[name |-> "wikipedia_pageviews", layer |-> 1, updateFrequency |-> "daily"],
      [name |-> "google_trends", layer |-> 2, updateFrequency |-> "daily"],
      [name |-> "reddit", layer |-> 1, updateFrequency |-> "hourly"],
      [name |-> "gnews", layer |-> 1, updateFrequency |-> "daily"],
      [name |-> "youtube", layer |-> 4, updateFrequency |-> "daily"],
      [name |-> "ebay", layer |-> 3, updateFrequency |-> "daily"]>>

RECURSIVE RegisterAll(_, _)
RegisterAll(entries, configs) ==
    IF configs = <<>>
    THEN entries
    ELSE RegisterAll(MapSet(entries, Head(configs).name, Head(configs)), Tail(configs))

----------------------------------------------------------------------------
(* routes.ts: registerIntelligenceRoutes and the import of signal-sources *)

\* registerIntelligenceRoutes starts the import, registers the routes and
\* returns; the .then and .catch callbacks run in a later turn.
RegisterIntelligenceRoutes ==
    /\ ~routesRegistered
    /\ routesRegistered' = TRUE
    /\ importState' = "pending"
    /\ UNCHANGED <<clock, ticks, nonSignalVars, signalSourceRegistry,
                   lastFetchedMap, externalSignals, pc, local, resp>>

\* .then(({registerAllSignalSources}) => registerAllSignalSources())
ImportResolves ==
    /\ importState = "pending"
    /\ importState' = "registered"
    /\ signalSourceRegistry' = RegisterAll(signalSourceRegistry, BuiltinSources)
    /\ UNCHANGED <<clock, ticks, nonSignalVars, routesRegistered,
                   lastFetchedMap, externalSignals, pc, local, resp>>

\* .catch((err) => console.error(...)): the registry stays as it is.
ImportFails ==
    /\ importState = "pending"
    /\ importState' = "failed"
    /\ UNCHANGED <<clock, ticks, nonSignalVars, routesRegistered,
                   signalSourceRegistry, lastFetchedMap, externalSignals,
                   pc, local, resp>>

\* GET /api/intelligence/signals/sources, up to its await import(...)
ListSourcesRequest(p) ==
    /\ routesRegistered
    /\ pc[p] = "idle"
    /\ pc' = [pc EXCEPT ![p] = "list_import"]
    /\ local' = [local EXCEPT ![p] = [op |-> "listSources"]]
    /\ resp' = [resp EXCEPT ![p] = NoResp]
    /\ UNCHANGED <<clock, ticks, nonSignalVars, signalVars>>

\* ... and from there: getAllSignalSources() is answered.
ListSourcesAnswer(p) ==
    /\ pc[p] = "list_import"
    /\ pc' = [pc EXCEPT ![p] = "idle"]
    /\ local' = [local EXCEPT ![p] = NoLocal]
    /\ resp' = [resp EXCEPT ![p] =
                   [status |-> "sources", sources |-> Len(getAllSignalSources)]]
    /\ UNCHANGED <<clock, ticks, nonSignalVars, signalVars>>

----------------------------------------------------------------------------
(* signal-ingestion.ts: fetchSignal and fetchAllSignals *)

\* The locals of a handler inside fetchSignal / fetchAllSignals:
\*   sources  what the call works through (getAllSignalSources() at entry,
\*            or the one source of fetchSignal),
\*   queue    the sources not yet finished, the current one first,
\*   results  the SignalFetchResults pushed so far,
\*   log      the console line of every finished fetchSignal call, in order,
\*   source   the registration and fetchedAt the current call holds.
FetchLocals(op, keyword, sources, queue, results, log, source, fetchedAt) ==
    [op |-> op, keyword |-> keyword, sources |-> sources, queue |-> queue,
     results |-> results, log |-> log, source |-> source, fetchedAt |-> fetchedAt]

NoSource == [name |-> Null]

\* One fetchSignal call has returned null and logged `line`.
ReturnedNull(l, line) ==
    FetchLocals(l.op, l.keyword, l.sources, Tail(l.queue), l.results,
                Append(l.log, [name |-> Head(l.queue), line |-> line]),
                NoSource, NullTime)

\* One fetchSignal call has returned its SignalFetchResult.
ReturnedResult(l) ==
    FetchLocals(l.op, l.keyword, l.sources, Tail(l.queue),
                Append(l.results, [sourceName |-> l.source.name,
                                   layer |-> l.source.layer,
                                   keyword |-> l.keyword,
                                   fetchedAt |-> l.fetchedAt]),
                Append(l.log, [name |-> Head(l.queue), line |-> "Fetched signal"]),
                NoSource, NullTime)

\* fetchSignal up to its first await: the source is looked up, the rate
\* limit checked, source.fetchFunction(keyword) called.
EnterFetchSignal(p, l) ==
    LET name == Head(l.queue)
        source == getSignalSource(name)
    IN IF source.name = Null
       THEN /\ pc' = [pc EXCEPT ![p] = "settled"]
            /\ local' = [local EXCEPT ![p] = ReturnedNull(l, "Signal source not found")]
       ELSE IF isRateLimited(name, l.keyword, source.updateFrequency)
       THEN /\ pc' = [pc EXCEPT ![p] = "settled"]
            /\ local' = [local EXCEPT ![p] = ReturnedNull(l, "Rate limited")]
       ELSE /\ pc' = [pc EXCEPT ![p] = "fetch"]
            /\ local' = [local EXCEPT ![p] =
                            FetchLocals(l.op, l.keyword, l.sources, l.queue,
                                        l.results, l.log, source, NullTime)]

Keywords == {"x", "de:x"}

SourceNames(sources) == [i \in DOMAIN sources |-> sources[i].name]

\* The answer of a call, in short: how many results it returns (the results
\* themselves are l.results at the step that answers).
FetchAnswer(l) ==
    [status |-> IF l.op = "fetchSignal" THEN "signal" ELSE "signals",
     results |-> Len(l.results)]

\* With locals l the handler is at the top of the loop of fetchAllSignals
\* (fetchSignal alone is one pass of it): without a source left it answers,
\* else it enters fetchSignal for the next one.
NextSource(p, l) ==
    IF l.queue = <<>>
    THEN /\ pc' = [pc EXCEPT ![p] = "idle"]
         /\ local' = [local EXCEPT ![p] = NoLocal]
         /\ resp' = [resp EXCEPT ![p] = FetchAnswer(l)]
    ELSE /\ EnterFetchSignal(p, l)
         /\ resp' = [resp EXCEPT ![p] = NoResp]

\* fetchSignal(sourceName, keyword), called directly
FetchSignalCall(p, sourceName, keyword) ==
    /\ pc[p] = "idle"
    /\ NextSource(p, FetchLocals("fetchSignal", keyword, <<sourceName>>,
                                 <<sourceName>>, <<>>, <<>>, NoSource, NullTime))
    /\ UNCHANGED <<clock, ticks, nonSignalVars, signalVars>>

\* fetchAllSignals(keyword), called directly: the registry is read, the
\* loop entered.
FetchAllSignalsCall(p, keyword) ==
    /\ pc[p] = "idle"
    /\ NextSource(p, FetchLocals("fetchAllSignals", keyword,
                                 SourceNames(getAllSignalSources),
                                 SourceNames(getAllSignalSources),
                                 <<>>, <<>>, NoSource, NullTime))
    /\ UNCHANGED <<clock, ticks, nonSignalVars, signalVars>>

\* POST /api/intelligence/signals/fetch with a sourceName, up to its
\* await import("./signal-ingestion")
FetchSignalRequest(p, sourceName, keyword) ==
    /\ routesRegistered
    /\ pc[p] = "idle"
    /\ pc' = [pc EXCEPT ![p] = "fetch_import"]
    /\ local' = [local EXCEPT ![p] =
                    FetchLocals("fetchSignal", keyword, <<sourceName>>, <<sourceName>>,
                                <<>>, <<>>, NoSource, NullTime)]
    /\ resp' = [resp EXCEPT ![p] = NoResp]
    /\ UNCHANGED <<clock, ticks, nonSignalVars, signalVars>>

\* POST /api/intelligence/signals/fetch without a sourceName, up to its
\* await import("./signal-ingestion")
FetchAllSignalsRequest(p, keyword) ==
    /\ routesRegistered
    /\ pc[p] = "idle"
    /\ pc' = [pc EXCEPT ![p] = "fetch_import"]
    /\ local' = [local EXCEPT ![p] =
                    FetchLocals("fetchAllSignals", keyword, <<>>, <<>>,
                                <<>>, <<>>, NoSource, NullTime)]
    /\ resp' = [resp EXCEPT ![p] = NoResp]
    /\ UNCHANGED <<clock, ticks, nonSignalVars, signalVars>>

\* ... and from there: fetchSignal is entered, or fetchAllSignals, which
\* reads the registry first.
FetchSignalEnter(p) ==
    /\ pc[p] = "fetch_import"
    /\ IF local[p].op = "fetchAllSignals"
       THEN NextSource(p, [local[p] EXCEPT !.sources = SourceNames(getAllSignalSources),
                                           !.queue = SourceNames(getAllSignalSources)])
       ELSE NextSource(p, local[p])
    /\ UNCHANGED <<clock, ticks, nonSignalVars, signalVars>>

\* source.fetchFunction(keyword) settles.  Resolved: the data is normalised,
\* fetchedAt read, the insert issued.  Rejected, or normalizationFunction
\* throws: the catch logs and fetchSignal returns null.
FetchOutcomes == {"resolved", "rejected", "normalization throws"}

FetchSettles(p, outcome) ==
    /\ pc[p] = "fetch"
    /\ IF outcome = "resolved"
       THEN /\ pc' = [pc EXCEPT ![p] = "persist"]
            /\ local' = [local EXCEPT ![p].fetchedAt = clock]
       ELSE /\ pc' = [pc EXCEPT ![p] = "settled"]
            /\ local' = [local EXCEPT ![p] =
                            ReturnedNull(local[p], "Error fetching signal")]
    /\ UNCHANGED <<clock, ticks, nonSignalVars, signalVars, resp>>

\* The insert into external_signals settles.  Done: the row is stored, the
\* rate-limit time of the key set, the result returned.  Failed: the catch
\* logs and fetchSignal returns null.  (Once the table holds MaxSignals rows
\* only the failure is explored.)
PersistOutcomes == {"inserted", "insert throws"}

ExternalSignalRow(l) ==
    [sourceName |-> l.source.name, layer |-> l.source.layer,
     keyword |-> l.keyword, fetchedAt |-> l.fetchedAt]

PersistSettles(p, outcome) ==
    /\ pc[p] = "persist"
    /\ outcome = "inserted" => Len(externalSignals) < MaxSignals
    /\ pc' = [pc EXCEPT ![p] = "settled"]
    /\ IF outcome = "inserted"
       THEN /\ externalSignals' = Append(externalSignals, ExternalSignalRow(local[p]))
            /\ lastFetchedMap' =
                   (getRateLimitKey(local[p].source.name, local[p].keyword)
                        :> local[p].fetchedAt) @@ lastFetchedMap
            /\ local' = [local EXCEPT ![p] = ReturnedResult(local[p])]
       ELSE /\ UNCHANGED <<externalSignals, lastFetchedMap>>
            /\ local' = [local EXCEPT ![p] =
                            ReturnedNull(local[p], "Error fetching signal")]
    /\ UNCHANGED <<clock, ticks, nonSignalVars, routesRegistered, importState,
                   signalSourceRegistry, resp>>

\* The loop of fetchAllSignals gives up at the first source without a result.
AfterFetchSignalStops(p) ==
    /\ pc[p] = "settled"
    /\ IF Len(local[p].results) < Len(local[p].log)
       THEN NextSource(p, [local[p] EXCEPT !.queue = <<>>])
       ELSE NextSource(p, local[p])
    /\ UNCHANGED <<clock, ticks, nonSignalVars, signalVars>>

\* The awaiting caller resumes with what fetchSignal returned: the route
\* answers, or the loop of fetchAllSignals has pushed the result (if any)
\* and goes on to the next source.
AfterFetchSignal(p) ==
    /\ pc[p] = "settled"
    /\ NextSource(p, local[p])
    /\ UNCHANGED <<clock, ticks, nonSignalVars, signalVars>>

----------------------------------------------------------------------------
(* feature-engineering.ts: the dataset-type registry *)

\* The extractor functions registrations carry, by name; applying one to a
\* raw record is kept symbolic.
Apply(fn, rawData) == [fn |-> fn, of |-> rawData]

\* The two registerDatasetType calls the module makes when it is loaded.
ModuleLoadDatasetTypes ==
    <<[datasetType |-> "video_ads",
       featureExtractor |-> "videoAdFeatureExtractor",
       targetMetricDefinition |-> [name |-> "engagement_rate",
                                   extractFn |-> "videoAdTargetExtractor"]],
      [datasetType |-> "video_ads_outpost",
       featureExtractor |-> "videoAdFeatureExtractor",
       targetMetricDefinition |-> [name |-> "engagement_rate",
                                   extractFn |-> "videoAdTargetExtractor"]]>>

RECURSIVE RegisterAllTypes(_, _)
RegisterAllTypes(entries, configs) ==
    IF configs = <<>>
    THEN entries
    ELSE RegisterAllTypes(MapSet(entries, Head(configs).datasetType, Head(configs)),
                          Tail(configs))

\* registerDatasetType(config)
RegisterDatasetType(config) ==
    /\ datasetTypeRegistry' = MapSet(datasetTypeRegistry, config.datasetType, config)
    /\ UNCHANGED <<clock, ticks, snapshotVars, signalVars, trainVars,
                   crossLayerPatterns, pc, local, resp>>

NoRegistration == [datasetType |-> Null]

getDatasetType(datasetType) ==
    IF MapHas(datasetTypeRegistry, datasetType)
    THEN MapGet(datasetTypeRegistry, datasetType)
    ELSE NoRegistration

NoFeatures == [notFound |-> TRUE]

extractFeaturesForRecord(datasetType, rawData) ==
    IF ~MapHas(datasetTypeRegistry, datasetType)
    THEN NoFeatures
    ELSE LET registration == MapGet(datasetTypeRegistry, datasetType)
         IN [features |-> Apply(registration.featureExtractor, rawData),
             target |-> Apply(registration.targetMetricDefinition.extractFn, rawData)]

\* A caller extracts the features of a raw record.
ExtractFeatures(p, datasetType, rawData) ==
    /\ pc[p] = "idle"
    /\ resp' = [resp EXCEPT ![p] =
                   [status |-> "features", datasetType |-> datasetType,
                    value |-> extractFeaturesForRecord(datasetType, rawData)]]
    /\ UNCHANGED <<clock, ticks, snapshotVars, signalVars, trainVars,
                   registryVars, pc, local>>

\* A caller looks a signal source up.
LookupSignalSource(p, name) ==
    /\ pc[p] = "idle"
    /\ resp' = [resp EXCEPT ![p] =
                   [status |-> "source", name |-> name, value |-> getSignalSource(name)]]
    /\ UNCHANGED <<clock, ticks, snapshotVars, signalVars, trainVars,
                   registryVars, pc, local>>

----------------------------------------------------------------------------
(* feature-engineering.ts: normalizeFeatures *)

\* A quotient of two numbers is kept exact, as a fraction in lowest terms
\* with a positive denominator.
RECURSIVE Gcd(_, _)
Gcd(a, b) == IF b = 0 THEN a ELSE Gcd(b, a % b)

Fraction(n, d) ==
    LET g == Gcd(Abs(n), Abs(d))
        sign == IF d < 0 THEN 0 - 1 ELSE 1
    IN [num |-> sign * (n \div g), den |-> sign * (d \div g)]

FractionLess(a, b) == a.num * b.den < b.num * a.den

\* Math.max(0, Math.min(1, q))
ClampNone(q) == q

Clamp(q) ==
    LET atMostOne == IF FractionLess(Fraction(1, 1), q) THEN Fraction(1, 1) ELSE q
    IN IF FractionLess(atMostOne, Fraction(0, 1)) THEN Fraction(0, 1) ELSE atMostOne

\* normalizeFeatures(features, stats): both objects are entries in insertion
\* order; of a FeatureStats only min and max are read.
normalizeFeatures(features, stats) ==
    [i \in DOMAIN features |->
        LET key == features[i].key
            value == features[i].value
        IN [key |-> key,
            value |-> IF ~MapHas(stats, key)
                      THEN Fraction(0, 1)
                      ELSE LET s == MapGet(stats, key)
                           IN IF s.max = s.min
                              THEN Fraction(0, 1)
                              ELSE Clamp(Fraction(value - s.min, s.max - s.min))]]

\* normalizeFeatures(features, stats) called with the caller's arguments
NormalizeFeaturesCall(p) ==
    /\ pc[p] = "idle"
    /\ local[p].op = "normalizeFeatures"
    /\ Returns(p, local[p], normalizeFeatures(local[p].features, local[p].stats))

----------------------------------------------------------------------------
(* model-training.ts *)

\* A feature name is a string; sort() compares strings code unit by code
\* unit, so a name is held as the sequence of its UTF-16 code units.  An
\* object (Record<string, number>) is its entries in insertion order.
LexLess(a, b) ==
    \/ Len(a) < Len(b) /\ \A i \in 1..Len(a) : a[i] = b[i]
    \/ \E k \in 1..Len(a) :
          /\ k <= Len(b)
          /\ a[k] < b[k]
          /\ \A i \in 1..(k - 1) : a[i] = b[i]

ObjectKeys(object) == [i \in DOMAIN object |-> object[i].key]

\* object[name] ?? 0
ValueOrZero(object, name) ==
    IF MapHas(object, name) THEN MapGet(object, name) ELSE 0

\* names.sort(): the default order, by code units.  (Insertion of each
\* element behind the ones not greater: the sort is stable.)
RECURSIVE SortNames(_)
SortNames(names) ==
    IF names = <<>>
    THEN <<>>
    ELSE LET rest == SortNames(SubSeq(names, 1, Len(names) - 1))
             x == names[Len(names)]
             k == Cardinality({i \in DOMAIN rest : ~LexLess(x, rest[i])})
         IN SubSeq(rest, 1, k) \o <<x>> \o SubSeq(rest, k + 1, Len(rest))

\* a.createdAt ? new Date(a.createdAt).getTime() : 0
SortTime(record) ==
    IF record.createdAt = NullTime THEN 0 ELSE record.createdAt

\* [...records].sort((a, b) => dateA - dateB)
RECURSIVE SortByCreatedAt(_)
SortByCreatedAt(records) ==
    IF records = <<>>
    THEN <<>>
    ELSE LET rest == SortByCreatedAt(SubSeq(records, 1, Len(records) - 1))
             x == records[Len(records)]
             k == Cardinality({i \in DOMAIN rest : SortTime(rest[i]) - SortTime(x) <= 0})
         IN SubSeq(rest, 1, k) \o <<x>> \o SubSeq(rest, k + 1, Len(rest))

\* Math.floor(n * ratio), the ratio in thousandths
FloorOfProduct(n, ratio) == (n * ratio) \div 1000

DefaultTrainRatio == 800

\* splitData(records, trainRatio): train and test, and `records`, the
\* caller's array as the call leaves it.
splitDataInPlace(records, trainRatio) ==
    LET sorted == SortByCreatedAt(records)
        splitIndex == FloorOfProduct(Len(sorted), trainRatio)
    IN [train |-> SubSeq(sorted, 1, splitIndex),
        test |-> SubSeq(sorted, splitIndex + 1, Len(sorted)),
        records |-> sorted]

splitData(records, trainRatio) ==
    LET sorted == SortByCreatedAt(records)
        splitIndex == FloorOfProduct(Len(sorted), trainRatio)
    IN [train |-> SubSeq(sorted, 1, splitIndex),
        test |-> SubSeq(sorted, splitIndex + 1, Len(sorted)),
        records |-> records]

RECURSIVE SumSeq(_)
SumSeq(s) == IF s = <<>> THEN 0 ELSE Head(s) + SumSeq(Tail(s))

\* The matrices: a sequence of rows.  Transpose and product are computed;
\* their entries carry the scale of their factors.
matrixTranspose(a) ==
    [j \in 1..Len(a[1]) |-> [i \in 1..Len(a) |-> a[i][j]]]

matrixMultiply(a, b) ==
    [i \in 1..Len(a) |->
        [j \in 1..Len(b[1]) |->
            SumSeq([k \in 1..Len(a[1]) |-> a[i][k] * b[k][j]])]]

\* matrixInverse(a): Gauss-Jordan elimination in floating point, also for a
\* singular matrix (a column without pivot is skipped).  The quotients are
\* not computed here: row i of the result stands for itself.  What is kept is
\* that the result has the rows of a.
matrixInverse(a) ==
    [i \in 1..Len(a) |-> [inverseOf |-> a, row |-> i]]

\* matrixMultiply(XtXinv, XtY) for the rows of an inverse: one row of one
\* entry per row of XtXinv.
InverseTimes(inverse, column) ==
    [i \in 1..Len(inverse) |-> <<[row |-> inverse[i], times |-> column]>>]

\* A number exactly zero, and a metric computed in floating point from the
\* predictions for the test slice.
Zero == [exactly |-> 0]

Metric(name, coefficients, intercept, featureNames, test) ==
    [metric |-> name, coefficients |-> coefficients, intercept |-> intercept,
     test |-> [i \in DOMAIN test |->
                  [featureVector |-> [j \in DOMAIN featureNames |->
                                         ValueOrZero(test[i].normalizedFeatures,
                                                     featureNames[j])],
                   targetValue |-> test[i].targetValue]]]

InsufficientData(trainSampleCount, testSampleCount) ==
    [coefficients |-> <<>>, intercept |-> Zero, featureNames |-> <<>>,
     rSquared |-> Zero, mae |-> Zero, tierAccuracy |-> Zero,
     directionalAccuracy |-> Zero,
     trainSampleCount |-> trainSampleCount, testSampleCount |-> testSampleCount]

\* Object.keys(train[0].normalizedFeatures) taken as they come.
FeatureNamesUnsorted(train) == ObjectKeys(train[1].normalizedFeatures)

FeatureNamesOf(train) == SortNames(ObjectKeys(train[1].normalizedFeatures))

\* records.length < 3
TooFewRecordsOffByOne(records) == Len(records) <= 3

TooFewRecords(records) == Len(records) < 3

trainModel(datasetId, records) ==
    IF TooFewRecords(records)
    THEN InsufficientData(0, 0)
    ELSE LET split == splitData(records, DefaultTrainRatio)
             train == split.train
             test == split.test
         IN IF Len(train) = 0 \/ Len(test) = 0
            THEN InsufficientData(Len(train), Len(test))
            ELSE LET featureNames == FeatureNamesOf(train)
                     X == [i \in DOMAIN train |->
                              <<1000>> \o [j \in DOMAIN featureNames |->
                                  ValueOrZero(train[i].normalizedFeatures,
                                              featureNames[j])]]
                     y == [i \in DOMAIN train |-> train[i].targetValue]
                     Xt == matrixTranspose(X)
                     XtX == matrixMultiply(Xt, X)
                     XtXinv == matrixInverse(XtX)
                     yCol == [i \in DOMAIN y |-> <<y[i]>>]
                     XtY == matrixMultiply(Xt, yCol)
                     beta == InverseTimes(XtXinv, XtY)
                     intercept == beta[1][1]
                     coefficients == [i \in 1..(Len(beta) - 1) |-> beta[i + 1][1]]
                 IN [coefficients |-> coefficients,
                     intercept |-> intercept,
                     featureNames |-> featureNames,
                     rSquared |-> Metric("rSquared", coefficients, intercept,
                                         featureNames, test),
                     mae |-> Metric("mae", coefficients, intercept,
                                    featureNames, test),
                     tierAccuracy |-> Metric("tierAccuracy", coefficients,
                                             intercept, featureNames, test),
                     directionalAccuracy |-> Metric("directionalAccuracy",
                                                    coefficients, intercept,
                                                    featureNames, test),
                     trainSampleCount |-> Len(train),
                     testSampleCount |-> Len(test)]

\* trainModel(datasetId, records) called with the caller's arguments
TrainModelCall(p) ==
    /\ pc[p] = "idle"
    /\ local[p].op = "trainModel"
    /\ Returns(p, local[p], trainModel(local[p].datasetId, local[p].records))

\* splitData(records, trainRatio) called with the caller's arguments
SplitDataCall(p) ==
    /\ pc[p] = "idle"
    /\ local[p].op = "splitData"
    /\ LET split == splitData(local[p].records, local[p].trainRatio)
       IN Returns(p, [local[p] EXCEPT !.records = split.records],
                  [train |-> split.train, test |-> split.test])

----------------------------------------------------------------------------
(* drift-detection.ts: detectDrift *)

\* A prediction entry is [predictedValue, actualValue]; an entry not yet
\* validated has no actual value.
NoValue == 0 - 1

Validated(entry) == entry.actualValue # NoValue

Overestimated(entry) ==
    Validated(entry) /\ entry.predictedValue > entry.actualValue

\* array.slice(-n): the last n elements, all of them when there are fewer;
\* slice(-0) is slice(0), the whole array.
SliceLast(s, n) ==
    IF n = 0 \/ n >= Len(s) THEN s ELSE SubSeq(s, Len(s) - n + 1, Len(s))

\* array.slice(0, -n): all but the last n elements.
SliceButLast(s, n) ==
    IF n >= Len(s) THEN <<>> ELSE SubSeq(s, 1, Len(s) - n)

DefaultWindowSize == 10

RecentCount == 5

NoDrift ==
    [driftDetected |-> FALSE, driftType |-> "undefined", severity |-> "none",
     recommendation |-> "none"]

Drift(driftType, severity, recommendation) ==
    [driftDetected |-> TRUE, driftType |-> driftType, severity |-> severity,
     recommendation |-> recommendation]

\* The comparison with >= in place of >.
RatioAboveOrAt(count, valid, threshold) == count * 1000 >= threshold * valid

\* overestimationRatio > 0.8 and > 0.6, the ratio being count / valid.
RatioAbove(count, valid, threshold) == count * 1000 > threshold * valid

RECURSIVE SumOfSquares(_)
SumOfSquares(s) ==
    IF s = <<>> THEN 0 ELSE Head(s) * Head(s) + SumOfSquares(Tail(s))

\* Len(values)^2 times the population variance of values.
VarianceTimesCountSquared(values) ==
    Len(values) * SumOfSquares(values) - SumSeq(values) * SumSeq(values)

\* (historicalMean - recentMean) / historicalStdDev > k, for a positive
\* standard deviation and a positive k: the difference is positive and its
\* square exceeds k^2 times the variance, all brought to one denominator.
DeviationsAbove(historicalValues, recentValues, k) ==
    LET difference == SumSeq(historicalValues) * Len(recentValues)
                         - SumSeq(recentValues) * Len(historicalValues)
    IN /\ difference > 0
       /\ difference * difference
             > k * k * Len(recentValues) * Len(recentValues)
                 * VarianceTimesCountSquared(historicalValues)

ActualValuesOf(entries) == [i \in DOMAIN entries |-> entries[i].actualValue]

\* Check 2 of detectDrift, over the actual values of the valid predictions.
EngagementDrop(actualValues) ==
    IF Len(actualValues) >= RecentCount
    THEN LET recentValues == SliceLast(actualValues, RecentCount)
             historicalValues == SliceButLast(actualValues, RecentCount)
         IN IF /\ Len(historicalValues) >= 2
               /\ VarianceTimesCountSquared(historicalValues) > 0
               /\ DeviationsAbove(historicalValues, recentValues, 2)
            THEN Drift("engagement_drop",
                       IF DeviationsAbove(historicalValues, recentValues, 3)
                       THEN "severe" ELSE "moderate",
                       "increase_exploration")
            ELSE NoDrift
    ELSE NoDrift

\* The two checks of detectDrift over windowPredictions.
DriftChecks(windowPredictions) ==
    LET overestimationCount ==
            Cardinality({i \in DOMAIN windowPredictions :
                            Overestimated(windowPredictions[i])})
        validPredictions == SelectSeq(windowPredictions, Validated)
    IN IF /\ Len(validPredictions) > 0
          /\ RatioAbove(overestimationCount, Len(validPredictions), 800)
       THEN Drift("overestimation", "severe", "retrain")
       ELSE IF /\ Len(validPredictions) > 0
               /\ RatioAbove(overestimationCount, Len(validPredictions), 600)
       THEN Drift("overestimation", "moderate", "reduce_confidence")
       ELSE EngagementDrop(ActualValuesOf(validPredictions))

\* The window is cut from all the predictions, the valid ones are picked
\* from the window.
WindowOf(predictions, windowSize) == SliceLast(predictions, windowSize)

detectDrift(predictions, windowSize) ==
    IF Len(predictions) = 0 THEN NoDrift
    ELSE DriftChecks(WindowOf(predictions, windowSize))

DetectDriftCall(p) ==
    /\ pc[p] = "idle"
    /\ local[p].op = "detectDrift"
    /\ Returns(p, local[p], detectDrift(local[p].predictions, local[p].windowSize))

----------------------------------------------------------------------------
(* prediction.ts: getRollingAccuracy *)

DefaultAccuracyWindow == 20

\* The same select ordered by created_at ascending.
SelectOldestLogs(logs, datasetId, windowSize) ==
    LET OfDataset(log) == log.datasetId = datasetId
        rows == SelectSeq(logs, OfDataset)
    IN SubSeq(rows, 1, IF windowSize < Len(rows) THEN windowSize ELSE Len(rows))

\* select ... where dataset_id = datasetId order by created_at desc limit
\* windowSize: the table keeps its rows in the order of their creation, so
\* these are the last windowSize rows of the dataset, the latest first.
SelectRecentLogs(logs, datasetId, windowSize) ==
    LET OfDataset(log) == log.datasetId = datasetId
        rows == SelectSeq(logs, OfDataset)
        count == IF windowSize < Len(rows) THEN windowSize ELSE Len(rows)
    IN [i \in 1..count |-> rows[Len(rows) + 1 - i]]

HasActualValue(log) == log.actualValue # NoValue

ZeroAccuracy ==
    [directionalAccuracy |-> Fraction(0, 1), tierAccuracy |-> Fraction(0, 1),
     meanAbsoluteError |-> Fraction(0, 1), sampleCount |-> 0]

\* The loop over validatedLogs: absoluteError ?? 0 is added up.
RECURSIVE TotalAbsError(_)
TotalAbsError(validatedLogs) ==
    IF validatedLogs = <<>> THEN 0
    ELSE (IF Head(validatedLogs).absoluteError = NoValue
          THEN 0 ELSE Head(validatedLogs).absoluteError)
         + TotalAbsError(Tail(validatedLogs))

\* getRollingAccuracy from the rows its select returned.
RollingAccuracyOf(logs) ==
    LET validatedLogs == SelectSeq(logs, HasActualValue)
        DirectionallyCorrect(log) == log.directionallyCorrect
        TierCorrect(log) == log.tierCorrect
        directionalCount == Len(SelectSeq(validatedLogs, DirectionallyCorrect))
        tierCount == Len(SelectSeq(validatedLogs, TierCorrect))
    IN IF Len(logs) = 0 THEN ZeroAccuracy
       ELSE IF Len(validatedLogs) = 0 THEN ZeroAccuracy
       ELSE [directionalAccuracy |-> Fraction(directionalCount, Len(validatedLogs)),
             tierAccuracy |-> Fraction(tierCount, Len(validatedLogs)),
             meanAbsoluteError |-> Fraction(TotalAbsError(validatedLogs),
                                            Len(validatedLogs)),
             sampleCount |-> Len(validatedLogs)]

\* getRollingAccuracy is entered and its select issued.
GetRollingAccuracyCall(p, datasetId, windowSize) ==
    /\ pc[p] = "idle"
    /\ pc' = [pc EXCEPT ![p] = "accuracy_select"]
    /\ local' = [local EXCEPT ![p] =
                    [op |-> "getRollingAccuracy", datasetId |-> datasetId,
                     windowSize |-> windowSize]]
    /\ resp' = [resp EXCEPT ![p] = NoResp]
    /\ UNCHANGED <<clock, ticks, modelSnapshots, predictionLogs, nonSnapshotVars>>

\* The select returns and the function computes its result from the rows.
GetRollingAccuracySelect(p) ==
    /\ pc[p] = "accuracy_select"
    /\ pc' = [pc EXCEPT ![p] = "idle"]
    /\ resp' = [resp EXCEPT ![p] =
                   [status |-> "returned",
                    value |-> RollingAccuracyOf(
                                  SelectRecentLogs(predictionLogs,
                                                   local[p].datasetId,
                                                   local[p].windowSize))]]
    /\ UNCHANGED <<clock, ticks, modelSnapshots, predictionLogs, nonSnapshotVars, local>>

----------------------------------------------------------------------------
(* exploration.ts: adjustEpsilon, mutateFeatures, decideExplorationStrategy *)

Undefined == "undefined"

\* An optional argument that was not given, and one that was.
NotGiven == [defined |-> FALSE]

Bound(min, max, step) == [min |-> min, max |-> max, step |-> step]

getDefaultMutationBounds ==
    <<[key |-> "setupDuration", value |-> Bound(0, 1000, 150)],
      [key |-> "punchlineTiming", value |-> Bound(0, 1000, 150)],
      [key |-> "toneShiftDensity", value |-> Bound(0, 1000, 200)],
      [key |-> "escalationDensity", value |-> Bound(0, 1000, 200)],
      [key |-> "deliveryPaceWps", value |-> Bound(0, 1000, 100)]>>

DefaultEpsilon == 150

\* baseEpsilon * 0.7, * 1.2, * 1.5: the factor is given in tenths, and the
\* product is a whole number of thousandths for an epsilon in hundredths.
TimesTenths(baseEpsilon, tenths) == (baseEpsilon * tenths) \div 10

\* !amiStage holds of undefined and of the empty string.
adjustEpsilon(baseEpsilon, amiStage) ==
    IF amiStage \in {Undefined, ""} THEN baseEpsilon
    ELSE IF amiStage \in {"search_growth", "buyer_interest"}
    THEN TimesTenths(baseEpsilon, 7)
    ELSE IF amiStage = "early_noise" THEN TimesTenths(baseEpsilon, 12)
    ELSE IF amiStage = "media_amplification" THEN TimesTenths(baseEpsilon, 15)
    ELSE baseEpsilon

\* The new value left as computed, without the clamp.
ClampToNothing(min, max, value) == value

\* Math.max(min, Math.min(max, value))
ClampTo(min, max, value) ==
    LET atMostMax == IF value > max THEN max ELSE value
    IN IF atMostMax < min THEN min ELSE atMostMax

\* The loop of mutateFeatures over Object.entries(bounds); `draws` are the
\* numbers Math.random() returns, one for each bound.
RECURSIVE MutateLoop(_, _, _, _, _)
MutateLoop(features, bounds, draws, mutated, mutationLog) ==
    IF bounds = <<>> THEN [features |-> mutated, mutationLog |-> mutationLog]
    ELSE LET featureName == Head(bounds).key
             bound == Head(bounds).value
             originalValue == IF MapHas(features, featureName)
                              THEN MapGet(features, featureName)
                              ELSE bound.min
             numSteps == (bound.max - bound.min) \div bound.step
             randomSteps == (Head(draws) * (2 * numSteps + 1)) \div 1000 - numSteps
             newValue == ClampTo(bound.min, bound.max,
                                 originalValue + randomSteps * bound.step)
         IN MutateLoop(features, Tail(bounds), Tail(draws),
                       MapSet(mutated, featureName, newValue),
                       MapSet(mutationLog, featureName,
                              [original |-> originalValue, mutated |-> newValue,
                               delta |-> newValue - originalValue]))

\* `mutated` starts as a copy of features; features itself is not written.
mutateFeatures(features, bounds, draws) ==
    MutateLoop(features, bounds, draws, features, <<>>)

\* random < adjustedEpsilon, with <= in place of <.
shouldExploreOrAt(random, adjustedEpsilon) == random <= adjustedEpsilon

\* random < adjustedEpsilon
shouldExplore(random, adjustedEpsilon) == random < adjustedEpsilon

\* decideExplorationStrategy(features, config, amiScore), `randoms` being
\* the numbers Math.random() returns during the call: the decision, and
\* `features`, the caller's object as the call leaves it.
decideExplorationStrategy(features, config, amiScore, randoms) ==
    LET mutationBounds == IF config.defined THEN config.mutationBounds
                          ELSE getDefaultMutationBounds
        baseEpsilon == IF config.defined THEN config.epsilon ELSE DefaultEpsilon
        adjustedEpsilon ==
            adjustEpsilon(baseEpsilon,
                          IF amiScore.defined THEN amiScore.stage ELSE Undefined)
        random == Head(randoms)
        mutation == mutateFeatures(features, mutationBounds, Tail(randoms))
    IN IF ~shouldExplore(random, adjustedEpsilon)
       THEN [decision |-> [groupType |-> "exploitation",
                           epsilon |-> adjustedEpsilon,
                           features |-> features],
             features |-> features]
       ELSE [decision |-> [groupType |-> "exploration",
                           epsilon |-> adjustedEpsilon,
                           features |-> mutation.features,
                           mutationParameters |->
                               [i \in DOMAIN mutation.mutationLog |->
                                   [key |-> mutation.mutationLog[i].key,
                                    value |-> mutation.mutationLog[i].value.delta]],
                           originalFeatures |-> features],
             features |-> features]

DecideExplorationCall(p) ==
    /\ pc[p] = "idle"
    /\ local[p].op = "decideExplorationStrategy"
    /\ LET decided == decideExplorationStrategy(local[p].features, local[p].config,
                                                local[p].amiScore, local[p].randoms)
       IN Returns(p, [local[p] EXCEPT !.features = decided.features],
                  decided.decision)

\* mutateFeatures(features, bounds) called with the caller's arguments, the
\* numbers Math.random() returns being `draws`.
MutateFeaturesCall(p) ==
    /\ pc[p] = "idle"
    /\ local[p].op = "mutateFeatures"
    /\ Returns(p, local[p],
               mutateFeatures(local[p].features, local[p].bounds, local[p].draws))

----------------------------------------------------------------------------
(* model-training.ts: predict, and optimization.ts *)

\* predict(coefficients, intercept, featureVector): coefficients and
\* features are in thousandths, the prediction in millionths.
predict(coefficients, intercept, featureVector) ==
    intercept * 1000
       + SumSeq([i \in DOMAIN coefficients |->
                    coefficients[i] * (IF i \in DOMAIN featureVector
                                       THEN featureVector[i] ELSE 0)])

DefaultStepSize == 50

Threw(message) == [threw |-> TRUE, error |-> message]

\* simulateDelta(featureVector, featureIndex, delta, coefficients,
\* intercept), the index counted from 1: the key at that place of
\* Object.keys(featureVector) is changed, and predict gets the values in the
\* order of those keys.
simulateDelta(featureVector, featureIndex, delta, coefficients, intercept) ==
    IF featureIndex \notin DOMAIN featureVector
    THEN Threw("Invalid feature index")
    ELSE LET clonedVector ==
                 [featureVector EXCEPT ![featureIndex].value =
                     ClampTo(0, 1000, @ + delta)]
         IN [threw |-> FALSE,
             value |-> predict(coefficients, intercept,
                               [k \in DOMAIN clonedVector |-> clonedVector[k].value])]

\* suggestions.sort((a, b) => b.predictedGain - a.predictedGain)
RECURSIVE SortByGain(_)
SortByGain(suggestions) ==
    IF suggestions = <<>>
    THEN <<>>
    ELSE LET rest == SortByGain(SubSeq(suggestions, 1, Len(suggestions) - 1))
             x == suggestions[Len(suggestions)]
             k == Cardinality({i \in DOMAIN rest :
                                  x.predictedGain - rest[i].predictedGain <= 0})
         IN SubSeq(rest, 1, k) \o <<x>> \o SubSeq(rest, k + 1, Len(rest))

\* One pass of the loop of optimizeFeatures, for the feature at index i:
\* the suggestion pushed (none: the empty sequence), or the exception of
\* simulateDelta.
OptimizeStep(currentFeatures, coefficients, intercept, featureNames, stepSize, i) ==
    LET featureName == featureNames[i]
        currentValue == IF MapHas(currentFeatures, featureName)
                        THEN MapGet(currentFeatures, featureName) ELSE 0
        currentPrediction ==
            predict(coefficients, intercept,
                    [k \in DOMAIN featureNames |->
                        IF MapHas(currentFeatures, featureNames[k])
                        THEN MapGet(currentFeatures, featureNames[k]) ELSE 0])
        positive == simulateDelta(currentFeatures, i, stepSize, coefficients, intercept)
        negative == simulateDelta(currentFeatures, i, 0 - stepSize, coefficients, intercept)
    IN IF positive.threw THEN positive
       ELSE LET positiveGain == positive.value - currentPrediction
                negativeGain == negative.value - currentPrediction
                up == positiveGain > negativeGain /\ positiveGain > 0
                suggestedValue ==
                    IF up THEN ClampTo(0, 1000, currentValue + stepSize)
                    ELSE IF negativeGain > 0
                    THEN ClampTo(0, 1000, currentValue - stepSize)
                    ELSE currentValue
                predictedGain == IF up THEN positiveGain
                                 ELSE IF negativeGain > 0 THEN negativeGain ELSE 0
                coefficient == IF i \in DOMAIN coefficients THEN coefficients[i] ELSE 0
                maxCoefficient ==
                    CHOOSE m \in {Abs(coefficients[k]) : k \in DOMAIN coefficients} :
                        \A k \in DOMAIN coefficients : Abs(coefficients[k]) <= m
            IN [threw |-> FALSE,
                pushed |-> IF predictedGain > 0
                           THEN <<[featureName |-> featureName,
                                   currentValue |-> currentValue,
                                   suggestedValue |-> suggestedValue,
                                   delta |-> suggestedValue - currentValue,
                                   predictedGain |-> predictedGain,
                                   confidence |-> Fraction(Abs(coefficient), maxCoefficient)]>>
                           ELSE <<>>]

\* optimizeFeatures: the result, or the exception that leaves it.
optimizeFeatures(currentFeatures, coefficients, intercept, featureNames, stepSize) ==
    LET Step(i) == OptimizeStep(currentFeatures, coefficients, intercept,
                                featureNames, stepSize, i)
        currentPrediction ==
            predict(coefficients, intercept,
                    [k \in DOMAIN featureNames |->
                        IF MapHas(currentFeatures, featureNames[k])
                        THEN MapGet(currentFeatures, featureNames[k]) ELSE 0])
    IN IF \E i \in DOMAIN featureNames : Step(i).threw
       THEN [status |-> "threw", error |-> "Invalid feature index"]
       ELSE LET pushed == [i \in DOMAIN featureNames |-> Step(i).pushed]
                Concat[i \in 0..Len(pushed)] ==
                    IF i = 0 THEN <<>> ELSE Concat[i - 1] \o pushed[i]
                suggestions == SortByGain(Concat[Len(pushed)])
                totalProjectedLift ==
                    SumSeq([k \in DOMAIN suggestions |-> suggestions[k].predictedGain])
            IN [status |-> "returned",
                suggestions |-> suggestions,
                currentPrediction |-> currentPrediction,
                optimizedPrediction |-> currentPrediction + totalProjectedLift,
                totalProjectedLift |-> totalProjectedLift,
                liftPercent |-> IF currentPrediction # 0
                                THEN Fraction(totalProjectedLift * 100, currentPrediction)
                                ELSE Fraction(0, 1)]

OptimizeFeaturesCall(p) ==
    /\ pc[p] = "idle"
    /\ local[p].op = "optimizeFeatures"
    /\ Returns(p, local[p],
               optimizeFeatures(local[p].currentFeatures, local[p].coefficients,
                                local[p].intercept, local[p].featureNames,
                                local[p].stepSize))

----------------------------------------------------------------------------
(* correlation-engine.ts: computeAMI *)

\* The stage rules with the marketplace rule tried before the search one.
classifyStageMarketplaceFirst(cultural, search, marketplace, media) ==
    IF cultural > 600 /\ search < 300 THEN "early_noise"
    ELSE IF marketplace > 500 THEN "buyer_interest"
    ELSE IF search > 500 THEN "search_growth"
    ELSE IF media > 600 THEN "media_amplification"
    ELSE "early_noise"

\* The if/else chain of computeAMI that sets `stage`.
classifyStage(cultural, search, marketplace, media) ==
    IF cultural > 600 /\ search < 300 THEN "early_noise"
    ELSE IF search > 500 THEN "search_growth"
    ELSE IF marketplace > 500 THEN "buyer_interest"
    ELSE IF media > 600 THEN "media_amplification"
    ELSE "early_noise"

\* computeAMI(layerSignals), layerSignals an object keyed by layer number.
\* Scores are in thousandths and so are the weights: ami, their sum of
\* products, is in millionths; confidence is in thousandths.
computeAMI(layerSignals) ==
    LET Score(layer) == IF MapHas(layerSignals, layer)
                        THEN MapGet(layerSignals, layer) ELSE 0
        culturalSpikeScore == Score(1)
        searchAccelerationScore == Score(2)
        marketplaceRankDeltaScore == Score(3)
        mediaAmplificationScore == Score(4)
        ami == culturalSpikeScore * 200 + searchAccelerationScore * 300
                 + marketplaceRankDeltaScore * 250 + mediaAmplificationScore * 250
        layersWithData ==
            Cardinality({i \in DOMAIN layerSignals : layerSignals[i].value > 0})
    IN [ami |-> ClampTo(0, 1000 * 1000, ami),
        stage |-> classifyStage(culturalSpikeScore, searchAccelerationScore,
                                marketplaceRankDeltaScore, mediaAmplificationScore),
        confidence |-> IF layersWithData * 200 + 200 > 1000 THEN 1000
                       ELSE layersWithData * 200 + 200,
        components |->
            [culturalSpikeScore |-> culturalSpikeScore,
             searchAccelerationScore |-> searchAccelerationScore,
             marketplaceRankDeltaScore |-> marketplaceRankDeltaScore,
             mediaAmplificationScore |-> mediaAmplificationScore],
        layerScores |-> layerSignals]

ComputeAMICall(p) ==
    /\ pc[p] = "idle"
    /\ local[p].op = "computeAMI"
    /\ Returns(p, local[p], computeAMI(local[p].layerSignals))

----------------------------------------------------------------------------
(* JavaScript numbers: binary floating point *)

\* A number is a binary float: a mantissa of MantissaBits bits times a power
\* of two (53 bits in the build; the model keeps the arithmetic and narrows
\* the mantissa).  Every operation returns the float nearest to the exact
\* result, ties going to the even mantissa.  Floats are held as reduced
\* fractions.
MantissaBits == 3

\* mantissa times 2^exponent
Value(mantissa, exponent) ==
    IF exponent >= 0 THEN Fraction(mantissa * 2^exponent, 1)
    ELSE Fraction(mantissa, 2^(0 - exponent))

\* The float nearest to magnitude * 2^exponent, for magnitude > 0.
RECURSIVE RoundAt(_, _)
RoundAt(magnitude, exponent) ==
    IF magnitude.num >= 2^MantissaBits * magnitude.den
    THEN RoundAt(Fraction(magnitude.num, 2 * magnitude.den), exponent + 1)
    ELSE IF magnitude.num < 2^(MantissaBits - 1) * magnitude.den
    THEN RoundAt(Fraction(2 * magnitude.num, magnitude.den), exponent - 1)
    ELSE LET floor == magnitude.num \div magnitude.den
             rest == 2 * (magnitude.num % magnitude.den)
         IN Value(IF rest > magnitude.den \/ (rest = magnitude.den /\ floor % 2 = 1)
                  THEN floor + 1 ELSE floor,
                  exponent)

Float(q) ==
    IF q.num = 0 THEN Fraction(0, 1)
    ELSE LET rounded == RoundAt(Fraction(Abs(q.num), q.den), 0)
         IN IF q.num < 0 THEN Fraction(0 - rounded.num, rounded.den) ELSE rounded

\* a + b, a - b, a * b and a / b of two numbers
Plus(a, b) == Float(Fraction(a.num * b.den + b.num * a.den, a.den * b.den))

Minus(a, b) == Float(Fraction(a.num * b.den - b.num * a.den, a.den * b.den))

Times(a, b) == Float(Fraction(a.num * b.num, a.den * b.den))

Over(a, b) == Float(Fraction(a.num * b.den, a.den * b.num))

\* Math.sqrt(q) for q >= 0: the float nearest to the root of q * 4^exponent,
\* found by comparing squares.
RECURSIVE SqrtAt(_, _)
SqrtAt(q, exponent) ==
    IF q.num >= 4^MantissaBits * q.den
    THEN SqrtAt(Fraction(q.num, 4 * q.den), exponent + 1)
    ELSE IF q.num < 4^(MantissaBits - 1) * q.den
    THEN SqrtAt(Fraction(4 * q.num, q.den), exponent - 1)
    ELSE LET below == CHOOSE m \in 2^(MantissaBits - 1) .. 2^MantissaBits - 1 :
                         /\ m * m * q.den <= q.num
                         /\ (m + 1) * (m + 1) * q.den > q.num
             middle == (2 * below + 1) * (2 * below + 1) * q.den
         IN Value(IF middle < 4 * q.num \/ (middle = 4 * q.num /\ below % 2 = 1)
                  THEN below + 1 ELSE below,
                  exponent)

Sqrt(q) == IF q.num = 0 THEN Fraction(0, 1) ELSE SqrtAt(q, 0)

\* array.reduce((sum, v) => sum + v, 0)
RECURSIVE SumOf(_)
SumOf(values) ==
    IF values = <<>> THEN Fraction(0, 1)
    ELSE Plus(SumOf(SubSeq(values, 1, Len(values) - 1)), values[Len(values)])

----------------------------------------------------------------------------
(* correlation-engine.ts: computePearsonCorrelation *)

computePearsonCorrelation(x, y) ==
    IF Len(x) # Len(y) \/ Len(x) = 0 THEN Fraction(0, 1)
    ELSE LET n == Fraction(Len(x), 1)
             meanX == Over(SumOf(x), n)
             meanY == Over(SumOf(y), n)
             dx == [i \in DOMAIN x |-> Minus(x[i], meanX)]
             dy == [i \in DOMAIN x |-> Minus(y[i], meanY)]
             covariance == SumOf([i \in DOMAIN x |-> Times(dx[i], dy[i])])
             varX == SumOf([i \in DOMAIN x |-> Times(dx[i], dx[i])])
             varY == SumOf([i \in DOMAIN x |-> Times(dy[i], dy[i])])
             stdX == Sqrt(Over(varX, n))
             stdY == Sqrt(Over(varY, n))
         IN IF stdX.num = 0 \/ stdY.num = 0 THEN Fraction(0, 1)
            ELSE LET pearsonR == Over(Over(covariance, n), Times(stdX, stdY))
                     one == Fraction(1, 1)
                     atMostOne == IF FractionLess(one, pearsonR) THEN one ELSE pearsonR
                 IN IF FractionLess(atMostOne, Fraction(0 - 1, 1))
                    THEN Fraction(0 - 1, 1) ELSE atMostOne

PearsonCall(p) ==
    /\ pc[p] = "idle"
    /\ local[p].op = "computePearsonCorrelation"
    /\ Returns(p, local[p], computePearsonCorrelation(local[p].x, local[p].y))

----------------------------------------------------------------------------
(* correlation-engine.ts: checkPatternRetirement *)

MinRetirementSamples == 5

RECURSIVE PredictedTotal(_)
PredictedTotal(predictions) ==
    IF predictions = <<>> THEN 0
    ELSE Head(predictions).predictedValue + PredictedTotal(Tail(predictions))

\* The number difference / sqrt(variance), kept as its two parts; the root
\* of a fraction is compared through squares.
OverRoot(difference, variance) == [difference |-> difference, variance |-> variance]

\* Math.abs(difference / sqrt(variance)) > 1.5
AbsAboveThreshold(ratio) ==
    4 * ratio.difference.num * ratio.difference.num * ratio.variance.den
        > 9 * ratio.variance.num * ratio.difference.den * ratio.difference.den

checkPatternRetirement(patternId, predictions) ==
    LET result == [patternId |-> patternId,
                   retired |-> FALSE,
                   underperformanceStdDev |-> OverRoot(Fraction(0, 1), Fraction(1, 1)),
                   sampleCount |-> Len(predictions)]
        actualValues == ActualValuesOf(SelectSeq(predictions, Validated))
        count == Len(actualValues)
        variance == Fraction(VarianceTimesCountSquared(actualValues), count * count)
        underperformance ==
            Fraction(PredictedTotal(predictions) * count
                        - SumSeq(actualValues) * Len(predictions),
                     Len(predictions) * count)
        underperformanceStdDev == OverRoot(underperformance, variance)
    IN IF Len(predictions) < MinRetirementSamples THEN result
       ELSE IF count < MinRetirementSamples THEN result
       ELSE IF variance.num = 0 THEN result
       ELSE [result EXCEPT !.underperformanceStdDev = underperformanceStdDev,
                           !.retired = AbsAboveThreshold(underperformanceStdDev)]

CheckRetirementCall(p) ==
    /\ pc[p] = "idle"
    /\ local[p].op = "checkPatternRetirement"
    /\ Returns(p, local[p],
               checkPatternRetirement(local[p].patternId, local[p].predictions))

----------------------------------------------------------------------------
(* correlation-engine.ts: detectLagCorrelation and findCrossLayerPatterns *)

\* Timestamps are counted in days.
MsPerDay == 1

DefaultMaxLagDays == 14

SampleBaseline == 30

\* [...signals].sort((a, b) => a.timestamp - b.timestamp), a stable sort
RECURSIVE SortByTimestamp(_)
SortByTimestamp(points) ==
    IF points = <<>>
    THEN <<>>
    ELSE LET rest == SortByTimestamp(SubSeq(points, 1, Len(points) - 1))
             x == points[Len(points)]
             k == Cardinality({i \in DOMAIN rest : rest[i].timestamp <= x.timestamp})
         IN SubSeq(rest, 1, k) \o <<x>> \o SubSeq(rest, k + 1, Len(rest))

\* The source values that have a target point less than a day from their
\* time plus the lag, each with the value of the closest such point (the
\* first of several equally close ones).
RECURSIVE AlignPoints(_, _, _)
AlignPoints(sortedSource, sortedTarget, lagMs) ==
    IF sortedSource = <<>> THEN [source |-> <<>>, target |-> <<>>]
    ELSE LET rest == AlignPoints(Tail(sortedSource), sortedTarget, lagMs)
             targetTime == Head(sortedSource).timestamp + lagMs
             Diff(j) == Abs(sortedTarget[j].timestamp - targetTime)
             bestMatch == CHOOSE j \in DOMAIN sortedTarget :
                             /\ \A k \in DOMAIN sortedTarget : Diff(j) <= Diff(k)
                             /\ \A k \in 1..(j - 1) : Diff(k) > Diff(j)
         IN IF sortedTarget # <<>> /\ Diff(bestMatch) < MsPerDay
            THEN [source |-> <<Head(sortedSource).value>> \o rest.source,
                  target |-> <<sortedTarget[bestMatch].value>> \o rest.target]
            ELSE rest

\* The loop over lag = from .. maxLagDays, entered with the best lag so far.
\* The best lag of an iteration is bound as a value before the next
\* iteration is entered.
RECURSIVE LagLoop(_, _, _, _, _)
LagLoop(sortedSource, sortedTarget, lag, maxLagDays, best) ==
    IF lag > maxLagDays THEN best
    ELSE LET aligned == AlignPoints(sortedSource, sortedTarget, lag * MsPerDay)
             Better(correlation) ==
                 /\ Len(aligned.source) >= 2
                 /\ Abs(correlation.num) * best.correlationStrength.den
                      > Abs(best.correlationStrength.num) * correlation.den
             After(correlation) ==
                 IF Better(correlation)
                 THEN [lagDays |-> lag,
                       correlationStrength |-> correlation,
                       sampleSize |-> Len(aligned.source)]
                 ELSE best
         IN CHOOSE result \in
                {LagLoop(sortedSource, sortedTarget, lag + 1, maxLagDays, next) :
                    next \in {After(correlation) :
                        correlation \in {computePearsonCorrelation(aligned.source,
                                                                   aligned.target)}}} :
                TRUE

detectLagCorrelation(sourceSignals, targetSignals, maxLagDays) ==
    CHOOSE result \in
        {LagLoop(sortedSource, sortedTarget, 0, maxLagDays,
                 [lagDays |-> 0, correlationStrength |-> Fraction(0, 1),
                  sampleSize |-> 0]) :
            sortedSource \in {SortByTimestamp(sourceSignals)},
            sortedTarget \in {SortByTimestamp(targetSignals)}} :
        TRUE

\* signalsByLayer[signal.layer] = signal.values over the signals in order:
\* the last signal of a layer stays.
SignalsByLayer(signals) ==
    [layer \in {signals[i].layer : i \in DOMAIN signals} |->
        signals[CHOOSE i \in DOMAIN signals :
                   /\ signals[i].layer = layer
                   /\ \A j \in DOMAIN signals : signals[j].layer = layer => j <= i].values]

\* Object.keys(signalsByLayer).map(parseInt).sort((a, b) => a - b)
RECURSIVE SortedLayers(_)
SortedLayers(layerSet) ==
    IF layerSet = {} THEN <<>>
    ELSE LET least == CHOOSE l \in layerSet : \A m \in layerSet : l <= m
         IN <<least>> \o SortedLayers(layerSet \ {least})

\* The correlation pushed for a pair, from the result of detectLagCorrelation.
PatternOfLag(lagResult, sourceLayer, targetLayer, keyword, sampleConfidence) ==
    [sourceLayer |-> sourceLayer,
     targetLayer |-> targetLayer,
     keyword |-> keyword,
     lagDays |-> lagResult.lagDays,
     correlationStrength |-> lagResult.correlationStrength,
     confidence |-> Sqrt(Times(Fraction(Abs(lagResult.correlationStrength.num),
                                        lagResult.correlationStrength.den),
                               sampleConfidence)),
     sampleSize |-> lagResult.sampleSize]

\* Math.min(1, lagResult.sampleSize / 30)
SampleConfidence(ratio) ==
    IF FractionLess(Fraction(1, 1), ratio) THEN Fraction(1, 1) ELSE ratio

\* The body of the loop over the pairs up to the insert.
CorrelationOfPair(signalsByLayer, sourceLayer, targetLayer, keyword) ==
    CHOOSE correlation \in
        {PatternOfLag(lagResult, sourceLayer, targetLayer, keyword,
                      SampleConfidence(Over(Fraction(lagResult.sampleSize, 1),
                                            Fraction(SampleBaseline, 1)))) :
            lagResult \in {detectLagCorrelation(signalsByLayer[sourceLayer],
                                                signalsByLayer[targetLayer],
                                                DefaultMaxLagDays)}} :
        TRUE

\* The loop is entered for pair i: it computes the correlation, pushes it
\* and suspends at the insert; without a pair i the function returns.
FindPatternsLoop(p, frame, i) ==
    IF i >= Len(frame.layers)
    THEN /\ pc' = [pc EXCEPT ![p] = "returned"]
         /\ local' = [local EXCEPT ![p] = frame]
         /\ resp' = [resp EXCEPT ![p] = [status |-> "returned", value |-> frame.results]]
    ELSE /\ pc' = [pc EXCEPT ![p] = "awaitPatternInsert"]
         /\ local' = [local EXCEPT ![p] =
                [frame EXCEPT !.i = i,
                              !.results = Append(frame.results,
                                    CorrelationOfPair(frame.signalsByLayer,
                                                      frame.layers[i],
                                                      frame.layers[i + 1],
                                                      frame.keyword))]]
         /\ UNCHANGED resp

\* findCrossLayerPatterns(signals), up to its first await
FindPatternsCall(p) ==
    /\ pc[p] = "idle"
    /\ local[p].op = "findCrossLayerPatterns"
    /\ LET signals == local[p].signals
           signalsByLayer == SignalsByLayer(signals)
       IN FindPatternsLoop(p,
              [op |-> "findCrossLayerPatterns",
               signals |-> signals,
               keyword |-> IF signals = <<>> THEN "" ELSE signals[Len(signals)].keyword,
               signalsByLayer |-> signalsByLayer,
               layers |-> SortedLayers(DOMAIN signalsByLayer),
               i |-> 1,
               results |-> <<>>],
              1)
    /\ UNCHANGED <<clock, ticks, snapshotVars, signalVars, trainVars, registryVars>>

\* The insert without its try/catch: a rejection ends the function.
PatternInsertRejects(p, stored) ==
    /\ pc[p] = "awaitPatternInsert"
    /\ IF stored
       THEN /\ crossLayerPatterns' =
                  Append(crossLayerPatterns,
                         [sourceLayer |-> local[p].results[local[p].i].sourceLayer,
                          targetLayer |-> local[p].results[local[p].i].targetLayer,
                          keyword |-> local[p].results[local[p].i].keyword,
                          lagDays |-> local[p].results[local[p].i].lagDays,
                          correlationStrength |->
                              local[p].results[local[p].i].correlationStrength,
                          confidence |-> local[p].results[local[p].i].confidence,
                          sampleSize |-> local[p].results[local[p].i].sampleSize,
                          status |-> "active",
                          lastObserved |-> clock])
            /\ FindPatternsLoop(p, local[p], local[p].i + 1)
       ELSE /\ crossLayerPatterns' = crossLayerPatterns
            /\ pc' = [pc EXCEPT ![p] = "returned"]
            /\ resp' = [resp EXCEPT ![p] = [status |-> "threw"]]
            /\ UNCHANGED local
    /\ UNCHANGED <<clock, ticks, snapshotVars, signalVars, trainVars, datasetTypeRegistry>>

\* db.insert(crossLayerPatterns).values(...) settles: the row is stored, or
\* the insert rejects and the catch logs the error.
PatternInsertSettles(p, stored) ==
    /\ pc[p] = "awaitPatternInsert"
    /\ crossLayerPatterns' =
          IF stored
          THEN Append(crossLayerPatterns,
                      [sourceLayer |-> local[p].results[local[p].i].sourceLayer,
                       targetLayer |-> local[p].results[local[p].i].targetLayer,
                       keyword |-> local[p].results[local[p].i].keyword,
                       lagDays |-> local[p].results[local[p].i].lagDays,
                       correlationStrength |->
                           local[p].results[local[p].i].correlationStrength,
                       confidence |-> local[p].results[local[p].i].confidence,
                       sampleSize |-> local[p].results[local[p].i].sampleSize,
                       status |-> "active",
                       lastObserved |-> clock])
          ELSE crossLayerPatterns
    /\ FindPatternsLoop(p, local[p], local[p].i + 1)
    /\ UNCHANGED <<clock, ticks, snapshotVars, signalVars, trainVars, datasetTypeRegistry>>

----------------------------------------------------------------------------
(* routes.ts: GET /api/intelligence/drift/:datasetId *)

DriftRouteLimit == 20

\* predictions.map(p => ({predictedValue, actualValue, error}))
MappedLogs(rows) ==
    [i \in DOMAIN rows |->
        [predictedValue |-> rows[i].predictedValue, actualValue |-> rows[i].actualValue]]

\* The route up to its select.
GetDriftRequest(p, datasetId) ==
    /\ pc[p] = "idle"
    /\ pc' = [pc EXCEPT ![p] = "drift_select"]
    /\ local' = [local EXCEPT ![p] = [op |-> "getDrift", datasetId |-> datasetId]]
    /\ resp' = [resp EXCEPT ![p] = NoResp]
    /\ UNCHANGED <<clock, ticks, modelSnapshots, predictionLogs, nonSnapshotVars>>

\* The select returns the latest 20 logs of the dataset, the latest first;
\* the route goes on to await import("./drift-detection").
GetDriftSelect(p) ==
    /\ pc[p] = "drift_select"
    /\ pc' = [pc EXCEPT ![p] = "drift_import"]
    /\ local' = [local EXCEPT ![p] =
                    [op |-> "getDrift", datasetId |-> local[p].datasetId,
                     predictions |-> SelectRecentLogs(predictionLogs,
                                                      local[p].datasetId,
                                                      DriftRouteLimit)]]
    /\ UNCHANGED <<clock, ticks, modelSnapshots, predictionLogs, nonSnapshotVars, resp>>

\* detectDrift(mapped) is answered.
GetDriftAnswer(p) ==
    /\ pc[p] = "drift_import"
    /\ pc' = [pc EXCEPT ![p] = "idle"]
    /\ resp' = [resp EXCEPT ![p] =
                   [status |-> "json",
                    value |-> detectDrift(MappedLogs(local[p].predictions),
                                          DefaultWindowSize)]]
    /\ UNCHANGED <<clock, ticks, modelSnapshots, predictionLogs, nonSnapshotVars, local>>

----------------------------------------------------------------------------
(* signal-ingestion.ts: getSignalHistory; routes.ts: POST /correlations/detect *)

DefaultHistoryLimit == 100

CorrelationLayers == 6

\* orderBy(desc(fetchedAt)) over rows in insertion order; of two rows with
\* one fetchedAt the later inserted comes first.
RECURSIVE SortByFetchedAtDesc(_)
SortByFetchedAtDesc(rows) ==
    IF rows = <<>>
    THEN <<>>
    ELSE LET rest == SortByFetchedAtDesc(SubSeq(rows, 1, Len(rows) - 1))
             x == rows[Len(rows)]
             k == Cardinality({i \in DOMAIN rest : rest[i].fetchedAt > x.fetchedAt})
         IN SubSeq(rest, 1, k) \o <<x>> \o SubSeq(rest, k + 1, Len(rest))

\* getSignalHistory(sourceName, keyword, limit): the select, or [] from the
\* catch when the select throws.
getSignalHistory(sourceName, keyword, limit, outcome) ==
    LET Matches(row) == row.sourceName = sourceName /\ row.keyword = keyword
        results == SortByFetchedAtDesc(SelectSeq(externalSignals, Matches))
    IN IF outcome = "select throws" THEN <<>>
       ELSE SubSeq(results, 1, IF limit < Len(results) THEN limit ELSE Len(results))

HistoryOutcomes == {"selected", "select throws"}

\* (d.normalizedFeatures)?.attentionDensityScore || 0
AttentionDensityScore(row) ==
    IF "attentionDensityScore" \in DOMAIN row
    THEN row.attentionDensityScore ELSE Fraction(0, 1)

\* The route up to its first await.
DetectCorrelationsRequest(p, keyword) ==
    /\ pc[p] = "idle"
    /\ pc' = [pc EXCEPT ![p] = "detect_history"]
    /\ local' = [local EXCEPT ![p] =
                    [op |-> "detectCorrelations", keyword |-> keyword,
                     layer |-> 1, signals |-> <<>>]]
    /\ resp' = [resp EXCEPT ![p] = NoResp]
    /\ UNCHANGED <<clock, ticks, snapshotVars, signalVars, trainVars, registryVars>>

\* getSignalHistory("", keyword, 100) settles for the layer of the loop: the
\* rows of the layer are pushed when there are any; after the last layer
\* findCrossLayerPatterns(signals) is entered.
DetectHistorySettles(p, outcome) ==
    /\ pc[p] = "detect_history"
    /\ LET keyword == local[p].keyword
           layer == local[p].layer
           history == getSignalHistory("", keyword, DefaultHistoryLimit, outcome)
           OfLayer(h) == h.layer = layer
           layerData == SelectSeq(history, OfLayer)
           signals ==
               IF Len(layerData) > 0
               THEN Append(local[p].signals,
                           [layer |-> layer,
                            keyword |-> keyword,
                            values |-> [i \in DOMAIN layerData |->
                                           [value |-> AttentionDensityScore(layerData[i]),
                                            timestamp |-> layerData[i].fetchedAt]]])
               ELSE local[p].signals
       IN IF layer < CorrelationLayers
          THEN /\ local' = [local EXCEPT ![p].layer = layer + 1, ![p].signals = signals]
               /\ UNCHANGED <<pc, resp>>
          ELSE FindPatternsLoop(p,
                   [op |-> "detectCorrelations",
                    request |-> keyword,
                    signals |-> signals,
                    keyword |-> IF signals = <<>> THEN ""
                                ELSE signals[Len(signals)].keyword,
                    signalsByLayer |-> SignalsByLayer(signals),
                    layers |-> SortedLayers(DOMAIN SignalsByLayer(signals)),
                    i |-> 1,
                    results |-> <<>>],
                   1)
    /\ UNCHANGED <<clock, ticks, snapshotVars, signalVars, trainVars, registryVars>>

----------------------------------------------------------------------------
(* routes.ts: POST /api/intelligence/datasets and /train/:datasetId *)

\* POST /datasets: one insert.  (Ids are generated; here the caller names it.)
CreateDataset(d) ==
    /\ d \notin DOMAIN datasets
    /\ datasets' = (d :> [lastTrainedAt |-> NullTime]) @@ datasets
    /\ UNCHANGED <<clock, ticks, nonTrainVars, datasetRecords, patternModels,
                   pc, local, resp>>

\* Nothing in this code writes dataset_records: whoever owns the data loads
\* or replaces the records of a dataset.  The rows of a batch: feature "b"
\* written before feature "a", the newest row first, every row with values
\* of its own.
BatchRow(i, isActive) ==
    [id |-> i, isActive |-> isActive,
     normalizedFeatures |-> <<[key |-> <<98>>, value |-> 10 * i],
                              [key |-> <<97>>, value |-> 1000 - 10 * i]>>,
     targetValue |-> 50 * i,
     createdAt |-> 12 - i]

\* Eleven rows with nine of them active, and eleven with ten.
RecordBatches ==
    {[i \in 1..11 |-> BatchRow(i, i \notin {3, 7})],
     [i \in 1..11 |-> BatchRow(i, i # 3)]}

LoadRecords(d, batch) ==
    /\ d \in DOMAIN datasets
    /\ datasetRecords' = (d :> batch) @@ datasetRecords
    /\ UNCHANGED <<clock, ticks, nonTrainVars, datasets, patternModels,
                   pc, local, resp>>

\* select from dataset_records where datasetId = d
RecordsOf(d) ==
    IF d \in DOMAIN datasetRecords THEN datasetRecords[d] ELSE <<>>

\* records.filter((r) => r.isActive)
ActiveRecordsUnfiltered(records) == records

ActiveRecords(records) == SelectSeq(records, LAMBDA r : r.isActive)

\* activeRecords.map((r) => ({normalizedFeatures, targetValue, createdAt}))
\* (the rows here all have their features and target, so the || {} and ?? 0
\* of the mapping change nothing)
TrainingRecords(activeRecords) ==
    [i \in DOMAIN activeRecords |->
        [normalizedFeatures |-> activeRecords[i].normalizedFeatures,
         targetValue |-> activeRecords[i].targetValue,
         createdAt |-> activeRecords[i].createdAt]]

\* The values({...}) of the insert into pattern_models (trainingMetrics
\* repeats the four metrics and is left out).
PatternModelRow(datasetId, result, now) ==
    [datasetId |-> datasetId,
     modelType |-> "multivariate_regression",
     coefficients |-> result.coefficients,
     intercept |-> result.intercept,
     featureNames |-> result.featureNames,
     rSquared |-> result.rSquared,
     mae |-> result.mae,
     tierAccuracy |-> result.tierAccuracy,
     directionalAccuracy |-> result.directionalAccuracy,
     trainSampleCount |-> result.trainSampleCount,
     testSampleCount |-> result.testSampleCount,
     status |-> "active",
     createdAt |-> now]

\* The route is entered and the select of the dataset issued.
TrainRequest(p, d) ==
    /\ pc[p] = "idle"
    /\ Len(patternModels)
         + Cardinality({q \in Procs : pc[q] \in {"train_dataset", "train_records",
                                                 "train_insert"}})
         < MaxModels
    /\ pc' = [pc EXCEPT ![p] = "train_dataset"]
    /\ local' = [local EXCEPT ![p] = [op |-> "train", datasetId |-> d]]
    /\ resp' = [resp EXCEPT ![p] = NoResp]
    /\ UNCHANGED <<clock, ticks, nonTrainVars, trainVars>>

\* The dataset is read: 404 without it, else the select of its records is
\* issued.
TrainReadDataset(p) ==
    /\ pc[p] = "train_dataset"
    /\ IF local[p].datasetId \in DOMAIN datasets
       THEN /\ pc' = [pc EXCEPT ![p] = "train_records"]
            /\ UNCHANGED <<local, resp>>
       ELSE /\ pc' = [pc EXCEPT ![p] = "idle"]
            /\ local' = [local EXCEPT ![p] = NoLocal]
            /\ resp' = [resp EXCEPT ![p] =
                           [status |-> "404", error |-> "Dataset not found"]]
    /\ UNCHANGED <<clock, ticks, nonTrainVars, trainVars>>

\* The records are read: 400 with fewer than 10 active ones, else the model
\* is trained on the active ones and the insert of the PatternModel issued.
TrainReadRecords(p) ==
    /\ pc[p] = "train_records"
    /\ LET records == RecordsOf(local[p].datasetId)
           activeRecords == ActiveRecords(records)
           trainingRecords == TrainingRecords(activeRecords)
       IN IF Len(activeRecords) < 10
          THEN /\ pc' = [pc EXCEPT ![p] = "idle"]
               /\ local' = [local EXCEPT ![p] = NoLocal]
               /\ resp' = [resp EXCEPT ![p] =
                              [status |-> "400", error |-> "Insufficient data",
                               recordCount |-> Len(activeRecords)]]
          ELSE /\ pc' = [pc EXCEPT ![p] = "train_insert"]
               /\ local' = [local EXCEPT ![p] =
                               [op |-> "train", datasetId |-> local[p].datasetId,
                                trainingRecords |-> trainingRecords,
                                result |-> trainModel(local[p].datasetId,
                                                      trainingRecords)]]
               /\ UNCHANGED resp
    /\ UNCHANGED <<clock, ticks, nonTrainVars, trainVars>>

\* The insert is done; the handler reads new Date() for lastTrainedAt and
\* issues the update of the dataset.
TrainInsertModel(p) ==
    /\ pc[p] = "train_insert"
    /\ patternModels' = Append(patternModels,
                               PatternModelRow(local[p].datasetId,
                                               local[p].result, clock))
    /\ pc' = [pc EXCEPT ![p] = "train_update"]
    /\ local' = [local EXCEPT ![p] =
                    [op |-> "train", datasetId |-> local[p].datasetId,
                     model |-> Len(patternModels) + 1,
                     lastTrainedAt |-> clock]]
    /\ UNCHANGED <<clock, ticks, nonTrainVars, datasets, datasetRecords, resp>>

\* The update is done; the route answers the model and its metrics.
TrainUpdateDataset(p) ==
    /\ pc[p] = "train_update"
    /\ datasets' = IF local[p].datasetId \in DOMAIN datasets
                   THEN [datasets EXCEPT ![local[p].datasetId].lastTrainedAt =
                                             local[p].lastTrainedAt]
                   ELSE datasets
    /\ pc' = [pc EXCEPT ![p] = "idle"]
    /\ local' = [local EXCEPT ![p] = NoLocal]
    /\ resp' = [resp EXCEPT ![p] = [status |-> "trained", model |-> local[p].model]]
    /\ UNCHANGED <<clock, ticks, nonTrainVars, datasetRecords, patternModels>>

----------------------------------------------------------------------------
(* feature-engineering.ts: computeFeatureStats; routes.ts: POST /predict/:datasetId *)

\* computeFeatureStats(featureArrays): min and max of every feature, 0 and 0
\* for a feature without values (mean and stdDev are not read by the route).
computeFeatureStats(featureArrays) ==
    [i \in DOMAIN featureArrays |->
        LET values == featureArrays[i].value
            Among(v) == \E k \in DOMAIN values : values[k] = v
        IN [key |-> featureArrays[i].key,
            value |-> IF values = <<>> THEN [min |-> 0, max |-> 0]
                      ELSE [min |-> CHOOSE v \in {values[k] : k \in DOMAIN values} :
                                       \A k \in DOMAIN values : v <= values[k],
                            max |-> CHOOSE v \in {values[k] : k \in DOMAIN values} :
                                       \A k \in DOMAIN values : v >= values[k]]]]

\* featureArrays[name]: nf[name] of every record that has it, per feature
\* name of the model.
FeatureArrays(featureNames, allRecords) ==
    [j \in DOMAIN featureNames |->
        LET Has(record) == MapHas(record.normalizedFeatures, featureNames[j])
            having == SelectSeq(allRecords, Has)
        IN [key |-> featureNames[j],
            value |-> [k \in DOMAIN having |->
                          MapGet(having[k].normalizedFeatures, featureNames[j])]]]

\* A number of the route in thousandths, as the numbers of the models and
\* snapshots are kept (the values that occur are whole thousandths).
InThousandths(q) == (1000 * q.num) \div q.den

\* The latest model of the dataset: the table is in the order of createdAt.
\* 0 without one.
LatestModel(datasetId) ==
    LET ofDataset == {i \in DOMAIN patternModels : patternModels[i].datasetId = datasetId}
    IN IF ofDataset = {} THEN 0
       ELSE CHOOSE i \in ofDataset : \A j \in ofDataset : j <= i

\* The route with features in the body, up to its select of the model.
PredictRequest(p, datasetId, features) ==
    /\ pc[p] = "idle"
    /\ Len(modelSnapshots) + Cardinality({q \in Procs : local[q].op = "predict"})
          < MaxSnapshots
    /\ pc' = [pc EXCEPT ![p] = "predict_model"]
    /\ local' = [local EXCEPT ![p] =
                    [op |-> "predict", datasetId |-> datasetId, features |-> features]]
    /\ resp' = [resp EXCEPT ![p] = NoResp]
    /\ UNCHANGED <<clock, ticks, snapshotVars, nonSnapshotVars>>

\* The select returns the latest model: 404 without one, else the select of
\* the dataset's records is issued.
PredictSelectModel(p) ==
    /\ pc[p] = "predict_model"
    /\ IF LatestModel(local[p].datasetId) = 0
       THEN /\ pc' = [pc EXCEPT ![p] = "idle"]
            /\ local' = [local EXCEPT ![p] = NoLocal]
            /\ resp' = [resp EXCEPT ![p] =
                           [status |-> "404",
                            error |-> "No trained model found for this dataset"]]
       ELSE /\ pc' = [pc EXCEPT ![p] = "predict_records"]
            /\ local' = [local EXCEPT ![p] =
                            [op |-> "predict", datasetId |-> local[p].datasetId,
                             features |-> local[p].features,
                             modelId |-> LatestModel(local[p].datasetId),
                             latestModel |->
                                 patternModels[LatestModel(local[p].datasetId)]]]
            /\ UNCHANGED resp
    /\ UNCHANGED <<clock, ticks, snapshotVars, nonSnapshotVars>>

\* The records are read: the features are normalised with their statistics,
\* the value predicted and classified, and createPredictionSnapshot entered
\* up to its insert.
PredictReadRecords(p) ==
    /\ pc[p] = "predict_records"
    /\ LET latestModel == local[p].latestModel
           featureNames == latestModel.featureNames
           stats == computeFeatureStats(
                        FeatureArrays(featureNames, RecordsOf(local[p].datasetId)))
           normalizedFeatures == normalizeFeatures(local[p].features, stats)
           featureVector ==
               [j \in DOMAIN featureNames |->
                   IF MapHas(normalizedFeatures, featureNames[j])
                   THEN InThousandths(MapGet(normalizedFeatures, featureNames[j]))
                   ELSE 0]
           predictedValue ==
               predict(latestModel.coefficients, latestModel.intercept, featureVector)
                  \div 1000
       IN local' = [local EXCEPT ![p] =
                       [op |-> "predict",
                        datasetId |-> local[p].datasetId,
                        modelId |-> local[p].modelId,
                        featureVector |-> featureVector,
                        coefficients |-> latestModel.coefficients,
                        predictedValue |-> predictedValue,
                        predictedTier |-> classifyTier(predictedValue),
                        confidence |-> latestModel.rSquared,
                        hashSignature |-> Sha256(featureVector, latestModel.coefficients,
                                                 predictedValue, clock)]]
    /\ pc' = [pc EXCEPT ![p] = "predict_insert"]
    /\ UNCHANGED <<clock, ticks, snapshotVars, nonSnapshotVars, resp>>

\* The insert of the snapshot is done and the route answers.
PredictInsertSnapshot(p) ==
    /\ pc[p] = "predict_insert"
    /\ modelSnapshots' = Append(modelSnapshots, SnapshotRow(local[p], clock))
    /\ pc' = [pc EXCEPT ![p] = "idle"]
    /\ local' = [local EXCEPT ![p] = NoLocal]
    /\ resp' = [resp EXCEPT ![p] =
                   [status |-> "json",
                    predictedValue |-> local[p].predictedValue,
                    predictedTier |-> local[p].predictedTier,
                    confidence |-> local[p].confidence,
                    snapshotId |-> Len(modelSnapshots) + 1,
                    featureVector |-> local[p].featureVector]]
    /\ UNCHANGED <<clock, ticks, predictionLogs, nonSnapshotVars>>

----------------------------------------------------------------------------
(* Specification of the snapshot store *)

\* The process has started: the tables and the module-level maps are empty,
\* no route is registered.
StartStateWithLogs(logs) ==
    /\ clock = 0
    /\ ticks = 0
    /\ modelSnapshots = <<>>
    /\ predictionLogs = logs
    /\ routesRegistered = FALSE
    /\ importState = "not_started"
    /\ signalSourceRegistry = <<>>
    /\ lastFetchedMap = <<>>
    /\ externalSignals = <<>>
    /\ datasetTypeRegistry = RegisterAllTypes(<<>>, ModuleLoadDatasetTypes)
    /\ crossLayerPatterns = <<>>
    /\ datasets = <<>>
    /\ datasetRecords = <<>>
    /\ patternModels = <<>>
    /\ pc = [p \in Procs |-> "idle"]
    /\ resp = [p \in Procs |-> NoResp]

StartState == StartStateWithLogs(<<>>)

\* ... and no handler runs.
Init ==
    /\ StartState
    /\ local = [p \in Procs |-> NoLocal]

\* A function of the core called on its own: the caller holds the arguments
\* of one call, drawn from `calls`.
Caller == "h1"

InitCalls(calls) ==
    /\ StartState
    /\ local \in {[p \in Procs |-> IF p = Caller THEN c ELSE NoLocal] : c \in calls}

NextSnapshot ==
    \/ \E p \in Procs, in \in SnapshotInputs : CreateSnapshotCall(p, in)
    \/ \E p \in Procs : CreateSnapshotInsert(p)
    \/ \E p \in Procs, id \in SnapshotIds : ConfirmUpload(p, id)
    \/ \E p \in Procs, id \in SnapshotIds : ValidateCallWithoutValue(p, id)
    \/ \E p \in Procs, id \in SnapshotIds, a \in ActualValues : ValidateCall(p, id, a)
    \/ \E p \in Procs : ValidateSelect(p)
    \/ \E p \in Procs : ValidateInsert(p)

SpecSnapshot == Init /\ [][NextSnapshot]_vars

\* Snapshot creation alone, with time passing between its two steps.
NextHash ==
    \/ \E d \in ClockSteps : Advance(d)
    \/ \E p \in Procs, in \in SnapshotInputs : CreateSnapshotCall(p, in)
    \/ \E p \in Procs : CreateSnapshotInsert(p)

SpecHash == Init /\ [][NextHash]_vars

----------------------------------------------------------------------------
(* Specifications of signal ingestion *)

\* What callers register: a built-in source and a regional variant of it
\* under a name of its own.
SourceConfigs ==
    {[name |-> "reddit", layer |-> 1, updateFrequency |-> "hourly"],
     [name |-> "reddit:de", layer |-> 1, updateFrequency |-> "daily"]}

SignalClockSteps == {HourMs - 1, HourMs}

\* The module used directly: registrations, fetches, time passing.
NextSignal ==
    \/ \E d \in SignalClockSteps : Advance(d)
    \/ \E c \in SourceConfigs : RegisterSignalSource(c)
    \/ \E p \in Procs, c \in SourceConfigs, k \in Keywords :
          FetchSignalCall(p, c.name, k)
    \/ \E p \in Procs, o \in FetchOutcomes : FetchSettles(p, o)
    \/ \E p \in Procs, o \in PersistOutcomes : PersistSettles(p, o)
    \/ \E p \in Procs : AfterFetchSignal(p)

SpecSignal == Init /\ [][NextSignal]_vars

\* The module used directly: registrations and fetchAllSignals.
NextFetchAll ==
    \/ \E c \in SourceConfigs : RegisterSignalSource(c)
    \/ \E p \in Procs, k \in Keywords : FetchAllSignalsCall(p, k)
    \/ \E p \in Procs, o \in FetchOutcomes : FetchSettles(p, o)
    \/ \E p \in Procs, o \in PersistOutcomes : PersistSettles(p, o)
    \/ \E p \in Procs : AfterFetchSignal(p)

SpecFetchAll == Init /\ [][NextFetchAll]_vars

----------------------------------------------------------------------------
(* Specification of the train route *)

NextTrain ==
    \/ \E d \in ClockSteps : Advance(d)
    \/ \E d \in DatasetIds : CreateDataset(d)
    \/ \E d \in DatasetIds, b \in RecordBatches : LoadRecords(d, b)
    \/ \E p \in Procs, d \in DatasetIds : TrainRequest(p, d)
    \/ \E p \in Procs : TrainReadDataset(p)
    \/ \E p \in Procs : TrainReadRecords(p)
    \/ \E p \in Procs : TrainInsertModel(p)
    \/ \E p \in Procs : TrainUpdateDataset(p)

SpecTrain == Init /\ [][NextTrain]_vars

----------------------------------------------------------------------------
(* Specification of the server: routes registered, sources imported,
   requests served *)

RequestedSources == {"reddit", "nope"}

RequestKeywords == {"x"}

NextRoutes ==
    \/ RegisterIntelligenceRoutes
    \/ ImportResolves
    \/ ImportFails
    \/ \E p \in Procs : ListSourcesRequest(p)
    \/ \E p \in Procs : ListSourcesAnswer(p)
    \/ \E p \in Procs, n \in RequestedSources, k \in RequestKeywords :
          FetchSignalRequest(p, n, k)
    \/ \E p \in Procs, k \in RequestKeywords : FetchAllSignalsRequest(p, k)
    \/ \E p \in Procs : FetchSignalEnter(p)
    \/ \E p \in Procs, o \in FetchOutcomes : FetchSettles(p, o)
    \/ \E p \in Procs, o \in PersistOutcomes : PersistSettles(p, o)
    \/ \E p \in Procs : AfterFetchSignal(p)

SpecRoutes == Init /\ [][NextRoutes]_vars

----------------------------------------------------------------------------
(* Specification of the two registries *)

\* Signal sources callers register: one name twice with different
\* registrations, and another name.
RegistryConfigs ==
    {[name |-> "reddit", layer |-> 1, updateFrequency |-> "hourly"],
     [name |-> "reddit", layer |-> 2, updateFrequency |-> "daily"],
     [name |-> "gnews", layer |-> 1, updateFrequency |-> "daily"]}

\* Dataset types callers register: a name the module has registered itself,
\* with another extractor, and a new name.
DatasetTypeConfigs ==
    {[datasetType |-> "video_ads",
      featureExtractor |-> "customExtractor",
      targetMetricDefinition |-> [name |-> "ctr", extractFn |-> "customTarget"]],
     [datasetType |-> "audio_ads",
      featureExtractor |-> "audioExtractor",
      targetMetricDefinition |-> [name |-> "listens", extractFn |-> "audioTarget"]]}

SignalSourceNameSpace == {"reddit", "gnews", "ebay"}

DatasetTypeNameSpace == {"video_ads", "video_ads_outpost", "audio_ads", "podcasts"}

RawRecords == {"r1"}

NextRegistry ==
    \/ \E c \in RegistryConfigs : RegisterSignalSource(c)
    \/ \E c \in DatasetTypeConfigs : RegisterDatasetType(c)
    \/ \E p \in Procs, n \in SignalSourceNameSpace : LookupSignalSource(p, n)
    \/ \E p \in Procs, n \in DatasetTypeNameSpace, r \in RawRecords :
          ExtractFeatures(p, n, r)

SpecRegistry == Init /\ [][NextRegistry]_vars

----------------------------------------------------------------------------
(* Specifications of model training called on its own *)

MaxRecords == 6

\* Training records: an early one with features "b" and "a" written in that
\* order, a later one with "ab", "a" and "aB".
TrainingRecordChoices ==
    {[normalizedFeatures |-> <<[key |-> <<98>>, value |-> 250],
                               [key |-> <<97>>, value |-> 750]>>,
      targetValue |-> 400, createdAt |-> 1],
     [normalizedFeatures |-> <<[key |-> <<97, 98>>, value |-> 100],
                               [key |-> <<97>>, value |-> 500],
                               [key |-> <<97, 66>>, value |-> 900]>>,
      targetValue |-> 800, createdAt |-> 2]}

SeqsUpTo(S, n) == UNION {[1..k -> S] : k \in 0..n}

TrainModelCalls ==
    {[op |-> "trainModel", datasetId |-> "d1", records |-> r] :
        r \in SeqsUpTo(TrainingRecordChoices, MaxRecords)}

InitTrainModel == InitCalls(TrainModelCalls)

NextTrainModel == \E p \in Procs : TrainModelCall(p)

SpecTrainModel == InitTrainModel /\ [][NextTrainModel]_vars

\* Records for splitData: without createdAt, and created at the epoch and
\* at two later times.
SplitRecordChoices ==
    {[normalizedFeatures |-> <<>>, targetValue |-> 100 * (t + 1), createdAt |-> t] :
        t \in {NullTime, 0, 1, 2}}

\* Ratios from 0 to 1, the default among them.
TrainRatios == {0, 500, DefaultTrainRatio, 1000}

SplitDataCalls ==
    {[op |-> "splitData", records |-> r, trainRatio |-> ratio] :
        r \in SeqsUpTo(SplitRecordChoices, MaxRecords), ratio \in TrainRatios}

InitSplitData == InitCalls(SplitDataCalls)

NextSplitData == \E p \in Procs : SplitDataCall(p)

SpecSplitData == InitSplitData /\ [][NextSplitData]_vars

----------------------------------------------------------------------------
(* Specification of normalizeFeatures called on its own *)

\* Features "a" and "b" with values below, at, between and above the
\* bounds the statistics take.
FeatureValues == {0 - 200, 0, 250, 1000, 1500}

FeatureObjects ==
    {<<>>}
    \cup {<<[key |-> <<97>>, value |-> v]>> : v \in FeatureValues}
    \cup {<<[key |-> <<98>>, value |-> v]>> : v \in FeatureValues}
    \cup {<<[key |-> <<98>>, value |-> v], [key |-> <<97>>, value |-> w]>> :
             v \in FeatureValues, w \in FeatureValues}

StatsBounds == {0, 500, 1000}

StatsOf(key) ==
    {<<>>} \cup {<<[key |-> key, value |-> [min |-> lo, max |-> hi]]>> :
                    lo \in StatsBounds, hi \in StatsBounds}

StatsObjects == {sa \o sb : sa \in StatsOf(<<97>>), sb \in StatsOf(<<98>>)}

NormalizeFeaturesCalls ==
    {[op |-> "normalizeFeatures", features |-> f, stats |-> st] :
        f \in FeatureObjects, st \in StatsObjects}

InitNormalize == InitCalls(NormalizeFeaturesCalls)

NextNormalize == \E p \in Procs : NormalizeFeaturesCall(p)

SpecNormalize == InitNormalize /\ [][NextNormalize]_vars

----------------------------------------------------------------------------
(* Specification of validation, one request at a time *)

\* Snapshots as the predict route stores them, predictedTier being
\* classifyTier(predictedValue): a low one, one at 0.5, a top one.
PredictedSnapshotInputs ==
    SnapshotInputs
    \cup {[datasetId |-> "d1", modelId |-> "m1", featureVector |-> <<500>>,
           coefficients |-> <<1000>>, predictedValue |-> 500,
           predictedTier |-> classifyTier(500), confidence |-> 900]}

\* Actual values at and next to 0.3, 0.5 and 0.7.
ValidatedActualValues == {299, 300, 499, 500, 700, 701}

NextValidate ==
    \/ \E in \in PredictedSnapshotInputs : CreateSnapshotCall(Caller, in)
    \/ CreateSnapshotInsert(Caller)
    \/ \E id \in SnapshotIds, a \in ValidatedActualValues : ValidateCall(Caller, id, a)
    \/ ValidateSelect(Caller)
    \/ ValidateInsert(Caller)

SpecValidate == Init /\ [][NextValidate]_vars

----------------------------------------------------------------------------
(* Specification of detectDrift called on its own *)

MaxPredictions == 7

\* An entry not validated, an overestimate, and two entries that are not
\* overestimates, with different actual values.
PredictionEntries ==
    {[predictedValue |-> 500, actualValue |-> NoValue],
     [predictedValue |-> 900, actualValue |-> 100],
     [predictedValue |-> 0, actualValue |-> 500],
     [predictedValue |-> 0, actualValue |-> 700]}

WindowSizes == {RecentCount, DefaultWindowSize}

DetectDriftCalls ==
    {[op |-> "detectDrift", predictions |-> s, windowSize |-> w] :
        s \in SeqsUpTo(PredictionEntries, MaxPredictions), w \in WindowSizes}

InitDrift == InitCalls(DetectDriftCalls)

NextDrift == \E p \in Procs : DetectDriftCall(p)

SpecDrift == InitDrift /\ [][NextDrift]_vars

----------------------------------------------------------------------------
(* Specification of validation and the rolling accuracy *)

AccuracyWindowSizes == {1, 2, DefaultAccuracyWindow}

\* Actual values on either side of 0.5 and of 0.7.
AccuracyActualValues == {300, 500, 701}

NextAccuracy ==
    \/ \E in \in PredictedSnapshotInputs : CreateSnapshotCall(Caller, in)
    \/ CreateSnapshotInsert(Caller)
    \/ \E id \in SnapshotIds, a \in AccuracyActualValues : ValidateCall(Caller, id, a)
    \/ ValidateSelect(Caller)
    \/ ValidateInsert(Caller)
    \/ \E d \in DatasetIds, w \in AccuracyWindowSizes :
          GetRollingAccuracyCall(Caller, d, w)
    \/ GetRollingAccuracySelect(Caller)

SpecAccuracy == Init /\ [][NextAccuracy]_vars

----------------------------------------------------------------------------
(* Specification of decideExplorationStrategy called on its own *)

ExplorationFeatureObjects ==
    {<<>>,
     <<[key |-> "setupDuration", value |-> 500]>>,
     <<[key |-> "wordCount", value |-> 120000],
       [key |-> "setupDuration", value |-> 900]>>}

\* No config, and configs with the epsilons 0, 0.5 and 1 and one bound.
ExplorationConfigs ==
    {NotGiven}
    \cup {[defined |-> TRUE, epsilon |-> e,
           mutationBounds |->
               <<[key |-> "setupDuration", value |-> Bound(0, 1000, 500)]>>] :
             e \in {0, 500, 1000}}

\* No score, a score without stage, the four stages and an unknown one.
AmiScores ==
    {NotGiven}
    \cup {[defined |-> TRUE, stage |-> s] :
             s \in {Undefined, "", "search_growth", "buyer_interest", "early_noise",
                    "media_amplification", "declining"}}

\* The first number drawn: 0, the largest one, and those next to the
\* adjusted epsilons of 0.15.
FirstDraws == {0, 104, 105, 149, 150, 179, 180, 224, 225, 999}

\* The numbers drawn for the mutations: all smallest, all middle, all
\* largest, and mixed.
MutationDraws ==
    {<<0, 0, 0, 0, 0>>, <<500, 500, 500, 500, 500>>,
     <<999, 999, 999, 999, 999>>, <<0, 999, 500, 250, 750>>}

DecideExplorationCalls ==
    {[op |-> "decideExplorationStrategy", features |-> f, config |-> c,
      amiScore |-> a, randoms |-> <<u>> \o d] :
        f \in ExplorationFeatureObjects, c \in ExplorationConfigs,
        a \in AmiScores, u \in FirstDraws, d \in MutationDraws}

InitExploration == InitCalls(DecideExplorationCalls)

NextExploration == \E p \in Procs : DecideExplorationCall(p)

SpecExploration == InitExploration /\ [][NextExploration]_vars

----------------------------------------------------------------------------
(* Specification of mutateFeatures called on its own *)

\* Features inside, at and outside the bounds, with and without a bound.
MutatedFeatureObjects ==
    ExplorationFeatureObjects
    \cup {<<[key |-> "punchlineTiming", value |-> 1200],
            [key |-> "setupDuration", value |-> 0]>>,
          <<[key |-> "setupDuration", value |-> 0 - 100],
            [key |-> "duration", value |-> 30000]>>}

\* The default bounds, and bounds whose range is no multiple of the step.
MutationBoundChoices ==
    {getDefaultMutationBounds,
     <<[key |-> "setupDuration", value |-> Bound(100, 900, 300)],
       [key |-> "punchlineTiming", value |-> Bound(0, 1000, 1000)]>>,
     <<>>}

DrawChoices == {0, 400, 999}

MutateFeaturesCalls ==
    {[op |-> "mutateFeatures", features |-> f, bounds |-> b, draws |-> d] :
        f \in MutatedFeatureObjects, b \in MutationBoundChoices,
        d \in [1..Len(getDefaultMutationBounds) -> DrawChoices]}

NextMutate == \E p \in Procs : MutateFeaturesCall(p)

SpecMutate == InitCalls(MutateFeaturesCalls) /\ [][NextMutate]_vars

----------------------------------------------------------------------------
(* Specification of optimizeFeatures called on its own *)

\* Objects with the keys "a", "b" and "c" in either order, from none to all
\* of them.
OptimizedValues == {0, 500, 980}

OptimizedFeatureObjects ==
    {<<>>}
    \cup {<<[key |-> <<97>>, value |-> v]>> : v \in OptimizedValues}
    \cup {<<[key |-> ks[1], value |-> v], [key |-> ks[2], value |-> w]>> :
             ks \in {<<<<97>>, <<98>>>>, <<<<98>>, <<97>>>>, <<<<99>>, <<97>>>>,
                     <<<<99>>, <<98>>>>},
             v \in OptimizedValues, w \in OptimizedValues}

\* A model over "a" and "b": its names in sorted order, a coefficient each.
OptimizeFeaturesCalls ==
    {[op |-> "optimizeFeatures", currentFeatures |-> f,
      coefficients |-> <<ca, cb>>, intercept |-> 100,
      featureNames |-> <<<<97>>, <<98>>>>, stepSize |-> DefaultStepSize] :
        f \in OptimizedFeatureObjects,
        ca \in {0 - 200, 0, 300}, cb \in {0 - 200, 300}}

NextOptimize == \E p \in Procs : OptimizeFeaturesCall(p)

SpecOptimize == InitCalls(OptimizeFeaturesCalls) /\ [][NextOptimize]_vars

----------------------------------------------------------------------------
(* Specification of computeAMI called on its own *)

\* A layer is absent or has one of the scores: those at and next to the
\* thresholds of its rule, and some outside [0, 1].
LayerChoices(layer, scores) ==
    {<<>>} \cup {<<[key |-> layer, value |-> v]>> : v \in scores}

ComputeAMICalls ==
    {[op |-> "computeAMI", layerSignals |-> c \o s \o m \o a] :
        c \in LayerChoices(1, {600, 601, 800, 6000}),
        s \in LayerChoices(2, {100, 299, 300, 500, 501}),
        m \in LayerChoices(3, {0, 500, 501}),
        a \in LayerChoices(4, {0, 600, 601, 0 - 5000})}

NextAMI == \E p \in Procs : ComputeAMICall(p)

SpecAMI == InitCalls(ComputeAMICalls) /\ [][NextAMI]_vars

----------------------------------------------------------------------------
(* Specification of computePearsonCorrelation called on its own *)

MaxSeries == 3

\* Every value is a float of the model.
SeriesValues == {Fraction(v, 2) : v \in {2, 3, 4, 6}}

PearsonCalls ==
    {[op |-> "computePearsonCorrelation", x |-> x, y |-> y] :
        x \in SeqsUpTo(SeriesValues, MaxSeries),
        y \in SeqsUpTo(SeriesValues, MaxSeries)}

NextPearson == \E p \in Procs : PearsonCall(p)

SpecPearson == InitCalls(PearsonCalls) /\ [][NextPearson]_vars

----------------------------------------------------------------------------
(* Specification of checkPatternRetirement called on its own *)

MaxRetirementLogs == 6

RetirementLogs ==
    {[predictedValue |-> v, actualValue |-> a] : v \in {1, 9}, a \in {NoValue, 1, 2}}

RetirementCalls ==
    {[op |-> "checkPatternRetirement", patternId |-> "p1", predictions |-> s] :
        s \in UNION {[1..k -> RetirementLogs] :
                        k \in MinRetirementSamples - 1 .. MaxRetirementLogs}}

NextRetirement == \E p \in Procs : CheckRetirementCall(p)

SpecRetirement == InitCalls(RetirementCalls) /\ [][NextRetirement]_vars

----------------------------------------------------------------------------
(* Specification of findCrossLayerPatterns called on its own *)

MaxLayerSignals == 3

\* Two series over three days: one rising, one falling and out of order.
LayerSeries ==
    { <<[value |-> Fraction(1, 1), timestamp |-> 0],
        [value |-> Fraction(2, 1), timestamp |-> 1],
        [value |-> Fraction(3, 1), timestamp |-> 2]>>,
      <<[value |-> Fraction(1, 1), timestamp |-> 3],
        [value |-> Fraction(3, 1), timestamp |-> 1],
        [value |-> Fraction(3, 2), timestamp |-> 2]>> }

LayerSignals ==
    {[layer |-> l, keyword |-> "k1", values |-> v] : l \in 1..4, v \in LayerSeries}

FindPatternsCalls ==
    {[op |-> "findCrossLayerPatterns", signals |-> s] :
        s \in SeqsUpTo(LayerSignals, MaxLayerSignals)}

NextPatterns ==
    \/ \E p \in Procs : FindPatternsCall(p)
    \/ \E p \in Procs, stored \in BOOLEAN : PatternInsertSettles(p, stored)

SpecPatterns == InitCalls(FindPatternsCalls) /\ [][NextPatterns]_vars

----------------------------------------------------------------------------
(* Specification of the drift route *)

MaxDriftLogs == 12

\* Validated logs of dataset d1, as validatePrediction has stored them: an
\* overestimate and an accurate prediction.
StoredDriftLogs ==
    {[datasetId |-> "d1", predictedValue |-> 900, actualValue |-> 100],
     [datasetId |-> "d1", predictedValue |-> 0, actualValue |-> 500]}

\* The route is called on a table that holds up to MaxDriftLogs logs.
InitDriftRoute ==
    /\ \E logs \in SeqsUpTo(StoredDriftLogs, MaxDriftLogs) : StartStateWithLogs(logs)
    /\ local = [p \in Procs |-> NoLocal]

NextDriftRoute ==
    \/ \E id \in {"d1", "d2"} : GetDriftRequest(Caller, id)
    \/ GetDriftSelect(Caller)
    \/ GetDriftAnswer(Caller)

SpecDriftRoute == InitDriftRoute /\ [][NextDriftRoute]_vars

----------------------------------------------------------------------------
(* Specification of the correlation route *)

\* Two built-in sources of layers 1 and 2, and a source registered under the
\* empty name, first for layer 1 and then for layer 3.
LayeredSourceConfigs ==
    {[name |-> "reddit", layer |-> 1, updateFrequency |-> "hourly"],
     [name |-> "google_trends", layer |-> 2, updateFrequency |-> "daily"],
     [name |-> "", layer |-> 1, updateFrequency |-> "hourly"],
     [name |-> "", layer |-> 3, updateFrequency |-> "hourly"]}

\* One caller fetches signals for a keyword and asks for its correlations.
NextCorrelations ==
    \/ Advance(HourMs)
    \/ \E c \in LayeredSourceConfigs : RegisterSignalSource(c)
    \/ \E c \in LayeredSourceConfigs : FetchSignalCall(Caller, c.name, "x")
    \/ \E o \in FetchOutcomes : FetchSettles(Caller, o)
    \/ \E o \in PersistOutcomes : PersistSettles(Caller, o)
    \/ AfterFetchSignal(Caller)
    \/ DetectCorrelationsRequest(Caller, "x")
    \/ \E o \in HistoryOutcomes : DetectHistorySettles(Caller, o)
    \/ \E stored \in BOOLEAN : PatternInsertSettles(Caller, stored)

SpecCorrelations == Init /\ [][NextCorrelations]_vars

----------------------------------------------------------------------------
(* Specification of the predict route *)

\* Results of two trainings of dataset d1: a model over the features "a" and
\* "b" and a model over "b" alone.
TrainedResults ==
    <<[coefficients |-> <<500, 1000>>, intercept |-> 0,
       featureNames |-> <<<<97>>, <<98>>>>, rSquared |-> 900, mae |-> 100,
       tierAccuracy |-> 500, directionalAccuracy |-> 500,
       trainSampleCount |-> 8, testSampleCount |-> 2],
      [coefficients |-> <<1000>>, intercept |-> 100,
       featureNames |-> <<<<98>>>>, rSquared |-> 800, mae |-> 200,
       tierAccuracy |-> 500, directionalAccuracy |-> 500,
       trainSampleCount |-> 8, testSampleCount |-> 2]>>

PredictRecords ==
    <<[id |-> 1, isActive |-> TRUE,
       normalizedFeatures |-> <<[key |-> <<97>>, value |-> 0],
                                [key |-> <<98>>, value |-> 500]>>,
       targetValue |-> 100, createdAt |-> 0],
      [id |-> 2, isActive |-> TRUE,
       normalizedFeatures |-> <<[key |-> <<97>>, value |-> 1000],
                                [key |-> <<98>>, value |-> 1000]>>,
       targetValue |-> 900, createdAt |-> 0]>>

\* The features of a request: "a" and "b", and "b" alone.
PredictFeatures ==
    {<<[key |-> <<97>>, value |-> 702], [key |-> <<98>>, value |-> 1000]>>,
     <<[key |-> <<98>>, value |-> 600]>>}

\* Dataset d1 has its records and no model or its first model; a second
\* training of d1 is about to insert its model, or none is running.
InitPredict ==
    /\ clock = 0
    /\ ticks = 0
    /\ modelSnapshots = <<>>
    /\ predictionLogs = <<>>
    /\ routesRegistered = FALSE
    /\ importState = "not_started"
    /\ signalSourceRegistry = <<>>
    /\ lastFetchedMap = <<>>
    /\ externalSignals = <<>>
    /\ datasetTypeRegistry = RegisterAllTypes(<<>>, ModuleLoadDatasetTypes)
    /\ crossLayerPatterns = <<>>
    /\ datasets = ("d1" :> [lastTrainedAt |-> NullTime])
    /\ datasetRecords = ("d1" :> PredictRecords)
    /\ patternModels \in {<<>>, <<PatternModelRow("d1", TrainedResults[1], 0)>>}
    /\ resp = [p \in Procs |-> NoResp]
    /\ \/ /\ pc = [p \in Procs |-> "idle"]
          /\ local = [p \in Procs |-> NoLocal]
       \/ /\ pc = [p \in Procs |-> IF p = Caller THEN "idle" ELSE "train_insert"]
          /\ local = [p \in Procs |->
                         IF p = Caller THEN NoLocal
                         ELSE [op |-> "train", datasetId |-> "d1",
                               trainingRecords |-> <<>>,
                               result |-> TrainedResults[2]]]

NextPredict ==
    \/ \E p \in Procs, d \in DatasetIds, f \in PredictFeatures : PredictRequest(p, d, f)
    \/ \E p \in Procs : PredictSelectModel(p)
    \/ \E p \in Procs : PredictReadRecords(p)
    \/ \E p \in Procs : PredictInsertSnapshot(p)
    \/ \E p \in Procs : TrainInsertModel(p)
    \/ \E p \in Procs : TrainUpdateDataset(p)

SpecPredict == InitPredict /\ [][NextPredict]_vars

----------------------------------------------------------------------------
(* Claims about the snapshot store *)

ImmutableFields(s) ==
    <<s.featureVector, s.coefficientsUsed, s.predictedValue, s.predictedTier,
      s.confidence, s.hashSignature, s.datasetId, s.modelId>>

\* C1: once a snapshot is stored, no step of confirmUpload or
\* validatePrediction (on its id or another) changes its featureVector,
\* coefficientsUsed, predictedValue, predictedTier, confidence,
\* hashSignature, datasetId or modelId; isLocked stays true; only
\* uploadConfirmed, uploadConfirmedAt and performanceTrackingStarted may
\* change, and uploadConfirmed never goes back to false.
C1_SnapshotFrame ==
    [][/\ Len(modelSnapshots') >= Len(modelSnapshots)
       /\ \A i \in DOMAIN modelSnapshots :
            LET s == modelSnapshots[i]
                t == modelSnapshots'[i]
            IN /\ ImmutableFields(t) = ImmutableFields(s)
               /\ t.isLocked = TRUE
               /\ s.uploadConfirmed => t.uploadConfirmed
               /\ [t EXCEPT !.uploadConfirmed = s.uploadConfirmed,
                            !.uploadConfirmedAt = s.uploadConfirmedAt,
                            !.performanceTrackingStarted = s.performanceTrackingStarted]
                  = s]_vars

\* Two snapshots are stored, one was confirmed twice over (it is confirmed
\* and a handler has just confirmed again), and a validation of it has
\* stored its log.
C1_Witness ==
    /\ Len(modelSnapshots) = 2
    /\ \E i \in DOMAIN modelSnapshots :
         /\ modelSnapshots[i].uploadConfirmed
         /\ \E j \in DOMAIN predictionLogs : predictionLogs[j].snapshotId = i
    /\ \E p \in Procs : resp[p].status = "confirmed"

\* C2: at most one PredictionLog references a snapshot, whatever
\* validatePrediction calls were made, and a stored PredictionLog is never
\* modified by a later call.
C2_OneLogPerSnapshot ==
    [][/\ \A i, j \in DOMAIN predictionLogs' :
            predictionLogs'[i].snapshotId = predictionLogs'[j].snapshotId => i = j
       /\ Len(predictionLogs') >= Len(predictionLogs)
       /\ \A i \in DOMAIN predictionLogs : predictionLogs'[i] = predictionLogs[i]]_vars

\* C6: validatePrediction on an id that matches no stored snapshot fails
\* with the error "Snapshot not found" and changes neither table.
C6_ValidateNotFound ==
    [][\A p \in Procs :
          (/\ pc[p] = "validate_select"
           /\ pc'[p] # "validate_select"
           /\ local[p].snapshotId \notin DOMAIN modelSnapshots)
          => /\ resp'[p].status = "500"
             /\ resp'[p].error = "Snapshot not found"
             /\ pc'[p] = "idle"
             /\ modelSnapshots' = modelSnapshots
             /\ predictionLogs' = predictionLogs]_vars

\* A validation of an unknown id has answered not-found while a snapshot
\* and a log of another validation are stored.
C6_Witness ==
    /\ \E p \in Procs : resp[p].status = "500"
    /\ Len(modelSnapshots) = 1
    /\ Len(predictionLogs) >= 1

\* The hash createPredictionSnapshot would compute from what the record holds:
\* its featureVector, coefficientsUsed and predictedValue, and createdAt,
\* the only time the record keeps.
RecomputedHash(s) ==
    Sha256(s.featureVector, s.coefficientsUsed, s.predictedValue, s.createdAt)

\* C7: for every stored snapshot, the hash recomputed over {featureVector,
\* coefficients, predictedValue, timestamp} from the values of the stored
\* record equals the stored hashSignature.
C7_SnapshotRoundTrip ==
    \A i \in DOMAIN modelSnapshots :
        RecomputedHash(modelSnapshots[i]) = modelSnapshots[i].hashSignature

----------------------------------------------------------------------------
(* Claims about signal ingestion *)

\* The handler is inside fetchSignal(name, keyword) past the rate-limit check.
PastRateLimitCheck(p, name, keyword) ==
    /\ pc[p] \in {"fetch", "persist"}
    /\ Head(local[p].queue) = name
    /\ local[p].keyword = keyword

\* The period of the source as it is registered.
Period(name) == getUpdateFrequencyMs(getSignalSource(name).updateFrequency)

\* C3: two concurrent fetchSignal calls for the same (sourceName, keyword)
\* never both pass the rate-limit check, and no two ExternalSignals of the
\* same (sourceName, keyword) are fetched within one rate-limit period of
\* each other.
C3_OneFetchPerPeriod ==
    /\ \A p, q \in Procs, n \in {c.name : c \in SourceConfigs}, k \in Keywords :
          PastRateLimitCheck(p, n, k) /\ PastRateLimitCheck(q, n, k) => p = q
    /\ \A i, j \in DOMAIN externalSignals :
          LET a == externalSignals[i]
              b == externalSignals[j]
          IN (i < j /\ a.sourceName = b.sourceName /\ a.keyword = b.keyword)
                => Abs(b.fetchedAt - a.fetchedAt) >= Period(a.sourceName)

\* A fetchSignal(name, keyword) has succeeded less than one period ago.
SucceededWithinPeriod(name, keyword) ==
    \E i \in DOMAIN externalSignals :
        /\ externalSignals[i].sourceName = name
        /\ externalSignals[i].keyword = keyword
        /\ clock - externalSignals[i].fetchedAt < Period(name)

\* C4: a fetchSignal call for a registered source is turned away exactly
\* when a call for the same (source, keyword) has succeeded less than one
\* period before it: then it returns nothing, calls no fetch function and
\* changes neither the stored signals nor the last-fetched times; otherwise
\* (another source, another keyword, or the period over) it goes on to fetch.
C4_RateLimitWindow ==
    [][\A p \in Procs :
          (/\ pc[p] = "idle"
           /\ pc'[p] # "idle"
           /\ local'[p].op = "fetchSignal"
           /\ MapHas(signalSourceRegistry, local'[p].sources[1]))
          => IF SucceededWithinPeriod(local'[p].sources[1], local'[p].keyword)
             THEN /\ pc'[p] = "settled"
                  /\ local'[p].results = <<>>
                  /\ externalSignals' = externalSignals
                  /\ lastFetchedMap' = lastFetchedMap
             ELSE pc'[p] = "fetch"]_vars

\* C5: when fetchAllSignals answers, it has called fetchSignal once for
\* every source that was registered when it was called, in the registry's
\* order, whatever failed on the way; it answers a list (never an error),
\* and the list holds exactly the results of the calls that fetched and
\* stored a signal, in that order.
FetchedNames(log) ==
    SelectSeq(log, LAMBDA e : e.line = "Fetched signal")

C5_FetchAllCompletes ==
    [][\A p \in Procs :
          /\ (pc'[p] # pc[p] /\ pc'[p] # "idle" /\ pc[p] = "idle"
                 /\ local'[p].op = "fetchAllSignals")
             => /\ local'[p].sources = SourceNames(getAllSignalSources)
                /\ \A i, j \in DOMAIN local'[p].sources :
                      local'[p].sources[i] = local'[p].sources[j] => i = j
          /\ (local[p].op = "fetchAllSignals" /\ pc'[p] = "idle")
             => /\ SourceNames(local[p].log) = local[p].sources
                /\ resp'[p].status = "signals"
                /\ resp'[p].results = Len(local[p].results)
                /\ [i \in DOMAIN local[p].results |-> local[p].results[i].sourceName]
                      = SourceNames(FetchedNames(local[p].log))
          /\ (local[p].op = "fetchAllSignals" /\ local'[p].op # "none")
             => /\ local'[p].sources = local[p].sources
                /\ Len(local'[p].log) + Len(local'[p].queue) = Len(local[p].sources)]_vars

\* A fetchAllSignals over two sources is about to answer: the first source
\* failed, the second was still fetched and is the one result.
C5_Witness ==
    \E p \in Procs :
        /\ pc[p] = "settled"
        /\ local[p].op = "fetchAllSignals"
        /\ local[p].queue = <<>>
        /\ Len(local[p].sources) = 2
        /\ local[p].log[1].line = "Error fetching signal"
        /\ local[p].log[2].line = "Fetched signal"
        /\ Len(local[p].results) = 1

----------------------------------------------------------------------------
(* Claims about the train route *)

ModelsOf(d) == SelectSeq(patternModels, LAMBDA m : m.datasetId = d)

\* The dataset's lastTrainedAt is the time of the training that stored its
\* newest PatternModel, once no training of the dataset still has its update
\* to do.
LastTrainedAtOfNewestModel ==
    \A d \in DOMAIN datasets :
        (/\ ModelsOf(d) # <<>>
         /\ \A p \in Procs : ~(pc[p] = "train_update" /\ local[p].datasetId = d))
        => datasets[d].lastTrainedAt = ModelsOf(d)[Len(ModelsOf(d))].createdAt

\* C8: while one training is between its PatternModel insert and its
\* lastTrainedAt update, no other training of the same dataset reads the
\* records or writes, and lastTrainedAt belongs to the training of the
\* newest PatternModel.
C8_TrainingsDoNotInterleave ==
    [][/\ \A p, q \in Procs :
             (/\ p # q
              /\ pc[p] = "train_update"
              /\ pc[q] \in {"train_records", "train_insert", "train_update"}
              /\ local[q].datasetId = local[p].datasetId)
             => pc'[q] = pc[q]
       /\ LastTrainedAtOfNewestModel']_vars

----------------------------------------------------------------------------
(* Claims about registration *)

BuiltinNames == {BuiltinSources[i].name : i \in DOMAIN BuiltinSources}

\* C9: every request served once registerIntelligenceRoutes has returned
\* sees all built-in sources: a listing holds them all, and no fetch of a
\* built-in source ends with "Signal source not found", and fetchAllSignals
\* works through all of them.
C9_RegistrationBeforeRequests ==
    \A p \in Procs :
        /\ resp[p].status = "sources" => resp[p].sources >= Len(BuiltinSources)
        /\ pc[p] \in {"fetch", "persist", "settled"}
           => /\ \A i \in DOMAIN local[p].log :
                    local[p].log[i].line = "Signal source not found"
                        => local[p].log[i].name \notin BuiltinNames
              /\ local[p].op = "fetchAllSignals"
                    => Len(local[p].sources) >= Len(BuiltinSources)

SignalSourceNames == {signalSourceRegistry[i].key : i \in DOMAIN signalSourceRegistry}

DatasetTypeNames == {datasetTypeRegistry[i].key : i \in DOMAIN datasetTypeRegistry}

\* C10: a step that changes a registry is a registration c: afterwards the
\* lookup of c's name gives c, the lookups of all other names give what they
\* gave before, and the name is the only one that may be new; the listing
\* never holds a name twice; and extractFeaturesForRecord answers null
\* exactly for the names never registered.
C10_LastWriterWins ==
    [][/\ signalSourceRegistry' # signalSourceRegistry
          => \E c \in RegistryConfigs :
                /\ getSignalSource(c.name)' = c
                /\ getSignalSource(c.name) # c
                /\ \A n \in SignalSourceNameSpace \ {c.name} :
                      getSignalSource(n)' = getSignalSource(n)
                /\ SignalSourceNames' = SignalSourceNames \cup {c.name}
       /\ datasetTypeRegistry' # datasetTypeRegistry
          => \E c \in DatasetTypeConfigs :
                /\ getDatasetType(c.datasetType)' = c
                /\ getDatasetType(c.datasetType) # c
                /\ \A n \in DatasetTypeNameSpace \ {c.datasetType} :
                      getDatasetType(n)' = getDatasetType(n)
                /\ DatasetTypeNames' = DatasetTypeNames \cup {c.datasetType}
       /\ \A i, j \in DOMAIN getAllSignalSources' :
             getAllSignalSources'[i].name = getAllSignalSources'[j].name => i = j
       /\ \A i, j \in DOMAIN datasetTypeRegistry' :
             datasetTypeRegistry'[i].key = datasetTypeRegistry'[j].key => i = j
       /\ \A p \in Procs :
             (resp'[p] # resp[p] /\ resp'[p].status = "features")
             => /\ (resp'[p].value = NoFeatures)
                       <=> (resp'[p].datasetType \notin DatasetTypeNames)
                /\ resp'[p].datasetType \in DatasetTypeNames
                   => resp'[p].value.features.fn
                         = getDatasetType(resp'[p].datasetType).featureExtractor
       /\ \A p \in Procs :
             (resp'[p] # resp[p] /\ resp'[p].status = "source")
             => resp'[p].value = getSignalSource(resp'[p].name)]_vars

\* "reddit" was looked up under its first registration and has been
\* registered again since; "video_ads" has been registered over the module's
\* own registration; features were asked for a type never registered.
C10_Witness ==
    /\ resp["h1"].status = "source"
    /\ resp["h1"].name = "reddit"
    /\ resp["h1"].value.name = "reddit"
    /\ getSignalSource("reddit").name = "reddit"
    /\ getSignalSource("reddit") # resp["h1"].value
    /\ getDatasetType("video_ads").featureExtractor = "customExtractor"
    /\ resp["h2"].status = "features"
    /\ resp["h2"].datasetType = "podcasts"
    /\ resp["h2"].value = NoFeatures

----------------------------------------------------------------------------
(* Claims about training *)

\* The training input holds a record with the features, target and time of
\* this row.
InTrainingInput(row, trainingRecords) ==
    \E j \in DOMAIN trainingRecords :
        /\ trainingRecords[j].normalizedFeatures = row.normalizedFeatures
        /\ trainingRecords[j].targetValue = row.targetValue
        /\ trainingRecords[j].createdAt = row.createdAt

\* C11: a train request that reads fewer than 10 active records answers
\* "Insufficient data" and has written nothing; one that reads at least 10
\* trains on exactly the active rows, then inserts one PatternModel, then
\* sets lastTrainedAt; no step of a handler changes a DatasetRecord, and no
\* step changes or removes a PatternModel stored earlier.
C11_TrainThreshold ==
    [][/\ \A p \in Procs :
             (pc[p] = "train_records" /\ pc'[p] # "train_records")
             => LET rows == RecordsOf(local[p].datasetId)
                    nActive == Cardinality({i \in DOMAIN rows : rows[i].isActive})
                IN IF nActive < 10
                   THEN /\ pc'[p] = "idle"
                        /\ resp'[p].status = "400"
                        /\ resp'[p].error = "Insufficient data"
                        /\ patternModels' = patternModels
                        /\ datasets' = datasets
                   ELSE /\ pc'[p] = "train_insert"
                        /\ Len(local'[p].trainingRecords) = nActive
                        /\ \A i \in DOMAIN rows :
                              rows[i].isActive
                                 <=> InTrainingInput(rows[i], local'[p].trainingRecords)
       /\ \A p \in Procs :
             (pc[p] = "train_insert" /\ pc'[p] # "train_insert")
             => /\ pc'[p] = "train_update"
                /\ Len(patternModels') = Len(patternModels) + 1
                /\ patternModels'[Len(patternModels')].datasetId = local[p].datasetId
       /\ \A p \in Procs :
             (pc[p] = "train_update" /\ pc'[p] # "train_update")
             => /\ resp'[p].status = "trained"
                /\ datasets'[local[p].datasetId].lastTrainedAt # NullTime
                /\ patternModels' = patternModels
       /\ patternModels' # patternModels
             => \E p \in Procs : pc[p] = "train_insert" /\ pc'[p] = "train_update"
       /\ \A d \in DOMAIN datasets :
             datasets'[d] # datasets[d]
             => \E p \in Procs : /\ pc[p] = "train_update"
                                 /\ pc'[p] = "idle"
                                 /\ local[p].datasetId = d
       /\ \A i \in DOMAIN patternModels :
             /\ i \in DOMAIN patternModels'
             /\ patternModels'[i] = patternModels[i]
       /\ (\E p \in Procs : pc'[p] # pc[p]) => datasetRecords' = datasetRecords]_vars

\* One request was turned away for insufficient data while another trained
\* a dataset that has an inactive record, stored its model and set
\* lastTrainedAt.
C11_Witness ==
    \E p, q \in Procs :
        /\ resp[p].status = "400"
        /\ resp[q].status = "trained"
        /\ Len(patternModels) = 1
        /\ LET d == patternModels[1].datasetId
           IN /\ datasets[d].lastTrainedAt # NullTime
              /\ \E i \in DOMAIN RecordsOf(d) : ~RecordsOf(d)[i].isActive
              /\ patternModels[1].trainSampleCount + patternModels[1].testSampleCount = 10

----------------------------------------------------------------------------
(* Claims about trainModel and splitData *)

\* The result trainModel documents for insufficient data.
ZeroedResult ==
    [coefficients |-> <<>>, intercept |-> Zero, featureNames |-> <<>>,
     rSquared |-> Zero, mae |-> Zero, tierAccuracy |-> Zero,
     directionalAccuracy |-> Zero, trainSampleCount |-> 0, testSampleCount |-> 0]

TrainModelReturned(p) == pc[p] = "returned" /\ local[p].op = "trainModel"

\* C12: trainModel returns the zeroed result exactly for fewer than 3
\* records; for n >= 3 records trainSampleCount is floor(0.8 * n), both
\* counts are positive and they add up to n.
C12_TrainModelThreshold ==
    \A p \in Procs :
        TrainModelReturned(p)
        => LET n == Len(local[p].records)
               result == resp[p].value
           IN /\ (result = ZeroedResult) <=> (n < 3)
              /\ n >= 3 => /\ result.trainSampleCount = (8 * n) \div 10
                           /\ result.trainSampleCount >= 1
                           /\ result.testSampleCount >= 1
                           /\ result.trainSampleCount + result.testSampleCount = n

\* trainModel has returned for 5 records: 4 to train on, 1 to test.
C12_Witness ==
    \E p \in Procs :
        /\ TrainModelReturned(p)
        /\ Len(local[p].records) = 5
        /\ resp[p].value.trainSampleCount = 4
        /\ resp[p].value.testSampleCount = 1

\* C14: every result of trainModel has as many coefficients as feature
\* names, the names in strictly ascending order of their code units
\* (insufficient data and a singular matrix included), and the PatternModel
\* row made of a result carries both unchanged.
C14_CoefficientsMatchNames ==
    \A p \in Procs :
        TrainModelReturned(p)
        => LET result == resp[p].value
               row == PatternModelRow(local[p].datasetId, result, clock)
           IN /\ Len(result.coefficients) = Len(result.featureNames)
              /\ \A i \in 1..(Len(result.featureNames) - 1) :
                    LexLess(result.featureNames[i], result.featureNames[i + 1])
              /\ row.coefficients = result.coefficients
              /\ row.featureNames = result.featureNames

\* trainModel has returned for four equal records (the normal-equation
\* matrix is singular) whose three features were written out of order.
C14_Witness ==
    \E p \in Procs :
        /\ TrainModelReturned(p)
        /\ Len(local[p].records) = 4
        /\ \A i \in DOMAIN local[p].records : local[p].records[i] = local[p].records[1]
        /\ resp[p].value.featureNames = <<<<97>>, <<97, 66>>, <<97, 98>>>>
        /\ Len(resp[p].value.coefficients) = 3

\* How often x occurs in the sequence s.
Occurrences(x, s) == Cardinality({i \in DOMAIN s : s[i] = x})

\* The time a record is ordered by: its createdAt, a missing one counting as
\* the earliest time there is (the epoch).
OrderTime(record) ==
    IF record.createdAt = NullTime THEN 0 ELSE record.createdAt

\* C13: splitData(records, r) returns train and test such that train
\* followed by test holds the records of the input, each as often as the
\* input does, in ascending createdAt order; train has floor(n * r) records;
\* no train record is later than a test record; and the input array is as
\* it was.
C13_SplitData ==
    [][\A p \in Procs :
          (pc[p] = "idle" /\ pc'[p] = "returned" /\ local[p].op = "splitData")
          => LET records == local[p].records
                 n == Len(records)
                 train == resp'[p].value.train
                 test == resp'[p].value.test
                 all == train \o test
             IN /\ Len(all) = n
                /\ \A i \in DOMAIN records :
                      Occurrences(records[i], all) = Occurrences(records[i], records)
                /\ \A i, j \in DOMAIN all :
                      i < j => OrderTime(all[i]) <= OrderTime(all[j])
                /\ Len(train) = (n * local[p].trainRatio) \div 1000
                /\ \A i \in DOMAIN train, j \in DOMAIN test :
                      OrderTime(train[i]) <= OrderTime(test[j])
                /\ local'[p].records = records]_vars

\* splitData has returned for four records given newest first, one of them
\* without createdAt, at the default ratio: three to train on, the newest to
\* test.
C13_Witness ==
    \E p \in Procs :
        /\ pc[p] = "returned"
        /\ local[p].op = "splitData"
        /\ local[p].trainRatio = DefaultTrainRatio
        /\ [i \in DOMAIN local[p].records |-> local[p].records[i].createdAt]
              = <<2, 1, NullTime, 0>>
        /\ [i \in DOMAIN resp[p].value.train |-> resp[p].value.train[i].createdAt]
              = <<NullTime, 0, 1>>
        /\ [i \in DOMAIN resp[p].value.test |-> resp[p].value.test[i].createdAt]
              = <<2>>

----------------------------------------------------------------------------
(* Claims about normalizeFeatures *)

NormalizeReturned(p) == pc[p] = "returned" /\ local[p].op = "normalizeFeatures"

InUnitInterval(q) == 0 <= q.num /\ q.num <= q.den

\* C15 as claimed: the output for every feature f is in [0,1], and (for f
\* with statistics) it is 0 exactly when stats[f].max = stats[f].min.
C15_ZeroExactlyWhenFlat ==
    \A p \in Procs :
        NormalizeReturned(p)
        => \A i \in DOMAIN local[p].features :
              LET key == local[p].features[i].key
                  out == resp[p].value[i]
              IN /\ out.key = key
                 /\ InUnitInterval(out.value)
                 /\ MapHas(local[p].stats, key)
                    => ((out.value.num = 0)
                          <=> (MapGet(local[p].stats, key).max
                                  = MapGet(local[p].stats, key).min))

\* C15 amended: the output for f is in [0,1]; it is 0 when stats[f] is
\* missing or stats[f].max = stats[f].min; for min < max it is
\* (value - min) / (max - min) cut to [0,1], so 0 exactly for a value at or
\* below min and 1 exactly for a value at or above max.
C15_NormalizedRange ==
    \A p \in Procs :
        NormalizeReturned(p)
        => /\ Len(resp[p].value) = Len(local[p].features)
           /\ \A i \in DOMAIN local[p].features :
                 LET key == local[p].features[i].key
                     value == local[p].features[i].value
                     out == resp[p].value[i]
                 IN /\ out.key = key
                    /\ InUnitInterval(out.value)
                    /\ ~MapHas(local[p].stats, key) => out.value.num = 0
                    /\ MapHas(local[p].stats, key)
                       => LET s == MapGet(local[p].stats, key)
                          IN /\ s.max = s.min => out.value.num = 0
                             /\ s.min < s.max
                                => /\ (out.value.num = 0) <=> (value <= s.min)
                                   /\ (out.value.num = out.value.den) <=> (value >= s.max)
                                   /\ (s.min < value /\ value < s.max)
                                      => out.value.num * (s.max - s.min)
                                            = out.value.den * (value - s.min)

\* normalizeFeatures has returned 0 for a feature whose value is the minimum
\* of statistics with min < max, and a fraction strictly between 0 and 1 for
\* another.
C15_Witness ==
    \E p \in Procs :
        /\ NormalizeReturned(p)
        /\ Len(local[p].features) = 2
        /\ MapHas(local[p].stats, local[p].features[1].key)
        /\ MapGet(local[p].stats, local[p].features[1].key).min = local[p].features[1].value
        /\ MapGet(local[p].stats, local[p].features[1].key).max > local[p].features[1].value
        /\ resp[p].value[1].value.num = 0
        /\ resp[p].value[2].value.num > 0
        /\ resp[p].value[2].value.num < resp[p].value[2].value.den

----------------------------------------------------------------------------
(* Claims about validation *)

\* The tiers as the specification gives them: top above 0.7, low below 0.3,
\* mid otherwise, 0.7 and 0.3 included.
TierOf(value) ==
    IF value > 700 THEN "top" ELSE IF value < 300 THEN "low" ELSE "mid"

UpperSide(value) == value >= 500

----------------------------------------------------------------------------
(* Claims about detectDrift *)

DriftReturned(p) == pc[p] = "returned" /\ local[p].op = "detectDrift"

\* The validated entries of the window of a call, oldest first.
ValidatedOfWindow(call) ==
    SelectSeq(WindowOf(call.predictions, call.windowSize), Validated)

OverCount(entries) ==
    Cardinality({i \in DOMAIN entries :
                    entries[i].predictedValue > entries[i].actualValue})

\* The mean of the earlier values less the mean of the last five, over the
\* standard deviation s of the earlier values, exceeds k: with n earlier
\* values of sum S, n^2 s^2 is the sum of (n v - S)^2 over them divided by
\* n, and the comparison is made on the squares.
RECURSIVE SquaredDistances(_, _, _)
SquaredDistances(values, n, sum) ==
    IF values = <<>> THEN 0
    ELSE (n * Head(values) - sum) * (n * Head(values) - sum)
            + SquaredDistances(Tail(values), n, sum)

DropAbove(values, k) ==
    LET n == Len(values) - 5
        earlier == SubSeq(values, 1, n)
        last == SubSeq(values, n + 1, Len(values))
        drop == 5 * SumSeq(earlier) - n * SumSeq(last)
    IN /\ drop > 0
       /\ n * drop * drop > 25 * k * k * SquaredDistances(earlier, n, SumSeq(earlier))

DropRuleApplies(values) ==
    /\ Len(values) >= 5
    /\ Len(values) - 5 >= 2
    /\ SquaredDistances(SubSeq(values, 1, Len(values) - 5), Len(values) - 5,
                        SumSeq(SubSeq(values, 1, Len(values) - 5))) > 0

\* What the rules of the specification give for the validated entries v.
RuleOutcome(v) ==
    LET n == Len(v)
        over == OverCount(v)
        values == [i \in DOMAIN v |-> v[i].actualValue]
    IN IF n > 0 /\ 10 * over > 8 * n
       THEN [driftDetected |-> TRUE, driftType |-> "overestimation",
             severity |-> "severe", recommendation |-> "retrain"]
       ELSE IF n > 0 /\ 10 * over > 6 * n
       THEN [driftDetected |-> TRUE, driftType |-> "overestimation",
             severity |-> "moderate", recommendation |-> "reduce_confidence"]
       ELSE IF DropRuleApplies(values) /\ DropAbove(values, 3)
       THEN [driftDetected |-> TRUE, driftType |-> "engagement_drop",
             severity |-> "severe", recommendation |-> "increase_exploration"]
       ELSE IF DropRuleApplies(values) /\ DropAbove(values, 2)
       THEN [driftDetected |-> TRUE, driftType |-> "engagement_drop",
             severity |-> "moderate", recommendation |-> "increase_exploration"]
       ELSE [driftDetected |-> FALSE, driftType |-> "undefined",
             severity |-> "none", recommendation |-> "none"]

MostRecentValidated(predictions, n) ==
    LET validated == SelectSeq(predictions, Validated)
    IN IF n >= Len(validated) THEN validated
       ELSE SubSeq(validated, Len(validated) - n + 1, Len(validated))

\* C18: detectDrift(predictions, windowSize) evaluates its rules against the
\* most recent windowSize entries that have an actual value; an entry
\* without one takes no place in the window.
C18_WindowOfValidated ==
    \A p \in Procs :
        DriftReturned(p)
        => resp[p].value
              = RuleOutcome(MostRecentValidated(local[p].predictions,
                                                local[p].windowSize))

----------------------------------------------------------------------------
(* Claims about getRollingAccuracy *)

\* The positions of the w most recently created logs of dataset d.
MostRecentOf(d, w) ==
    LET mine == {i \in DOMAIN predictionLogs : predictionLogs[i].datasetId = d}
    IN {i \in mine : Cardinality({j \in mine : j > i}) < w}

RECURSIVE SumOfAbsoluteErrors(_)
SumOfAbsoluteErrors(positions) ==
    IF positions = {} THEN 0
    ELSE LET i == CHOOSE j \in positions : TRUE
         IN predictionLogs[i].absoluteError + SumOfAbsoluteErrors(positions \ {i})

\* The fraction q is count / n.
IsRatio(q, count, n) == q.den > 0 /\ q.num * n = count * q.den

\* C19: getRollingAccuracy(d, w) counts the logs with an actual value among
\* the w most recently created logs of dataset d and no other log:
\* sampleCount is their number, from 0 to w, the two accuracies are the
\* fractions of them flagged correct, meanAbsoluteError is the mean of their
\* absolute errors, and all is zero when there is none.
C19_RollingAccuracy ==
    [][\A p \in Procs :
          (pc[p] = "accuracy_select" /\ pc'[p] = "idle")
          => LET w == local[p].windowSize
                 counted == {i \in MostRecentOf(local[p].datasetId, w) :
                                predictionLogs[i].actualValue # NoValue}
                 n == Cardinality(counted)
                 result == resp'[p].value
             IN /\ result.sampleCount = n
                /\ 0 <= n /\ n <= w
                /\ IF n = 0
                   THEN /\ result.directionalAccuracy = [num |-> 0, den |-> 1]
                        /\ result.tierAccuracy = [num |-> 0, den |-> 1]
                        /\ result.meanAbsoluteError = [num |-> 0, den |-> 1]
                   ELSE /\ IsRatio(result.directionalAccuracy,
                                   Cardinality({i \in counted :
                                       predictionLogs[i].directionallyCorrect}), n)
                        /\ IsRatio(result.tierAccuracy,
                                   Cardinality({i \in counted :
                                       predictionLogs[i].tierCorrect}), n)
                        /\ IsRatio(result.meanAbsoluteError,
                                   SumOfAbsoluteErrors(counted), n)
                        /\ result.directionalAccuracy.num <= result.directionalAccuracy.den
                        /\ result.tierAccuracy.num <= result.tierAccuracy.den
                        /\ result.directionalAccuracy.num >= 0
                        /\ result.tierAccuracy.num >= 0]_vars

\* With two logs of one dataset, the earlier directionally correct and the
\* later not, a call with window 1 has returned sampleCount 1 and
\* directional accuracy 0: only the later log was counted.
C19_Witness ==
    \E p \in Procs :
        /\ pc[p] = "idle"
        /\ local[p].op = "getRollingAccuracy"
        /\ local[p].windowSize = 1
        /\ resp[p].status = "returned"
        /\ Len(predictionLogs) = 2
        /\ predictionLogs[1].datasetId = local[p].datasetId
        /\ predictionLogs[2].datasetId = local[p].datasetId
        /\ predictionLogs[1].directionallyCorrect
        /\ ~predictionLogs[2].directionallyCorrect
        /\ resp[p].value.sampleCount = 1
        /\ resp[p].value.directionalAccuracy = [num |-> 0, den |-> 1]

----------------------------------------------------------------------------
(* Claims about decideExplorationStrategy *)

\* The factor of a stage, in tenths.
FactorTenths(stage) ==
    IF stage \in {"search_growth", "buyer_interest"} THEN 7
    ELSE IF stage = "early_noise" THEN 12
    ELSE IF stage = "media_amplification" THEN 15
    ELSE 10

EpsilonOf(call) == IF call.config.defined THEN call.config.epsilon ELSE 150

StageOf(call) == IF call.amiScore.defined THEN call.amiScore.stage ELSE "undefined"

----------------------------------------------------------------------------
(* Claims about mutateFeatures *)

\* More steps than any bound of the model allows.
StepRange == 0 - 20 .. 20

\* C21: for every feature with bounds {min, max, step} the value
\* mutateFeatures returns lies in [min, max] and is the original value plus
\* a whole multiple of step, or min, or max; a feature without bounds keeps
\* its value; the log entry of a bounded feature has delta = mutated -
\* original; the input map is as it was.
C21_MutationWithinBounds ==
    [][\A p \in Procs :
          (pc[p] = "idle" /\ pc'[p] = "returned" /\ local[p].op = "mutateFeatures")
          => LET features == local[p].features
                 bounds == local[p].bounds
                 result == resp'[p].value
             IN /\ \A i \in DOMAIN bounds :
                      LET f == bounds[i].key
                          b == bounds[i].value
                          original == IF \E j \in DOMAIN features : features[j].key = f
                                      THEN MapGet(features, f) ELSE b.min
                          value == MapGet(result.features, f)
                          entry == MapGet(result.mutationLog, f)
                      IN /\ b.min <= value /\ value <= b.max
                         /\ \/ value = b.min
                            \/ value = b.max
                            \/ \E k \in StepRange : value = original + k * b.step
                         /\ entry.original = original
                         /\ entry.mutated = value
                         /\ entry.delta = value - original
                /\ \A j \in DOMAIN features :
                      (\A i \in DOMAIN bounds : bounds[i].key # features[j].key)
                      => /\ result.features[j] = features[j]
                /\ Len(result.features)
                      = Len(features)
                          + Cardinality({i \in DOMAIN bounds :
                               \A j \in DOMAIN features :
                                   features[j].key # bounds[i].key})
                /\ local'[p].features = features]_vars

\* A call has returned in which punchlineTiming, given as 1.2, came back as
\* the maximum 1, setupDuration moved from 0 by whole steps, and the
\* unbounded features stayed.
C21_Witness ==
    \E p \in Procs :
        /\ pc[p] = "returned"
        /\ local[p].op = "mutateFeatures"
        /\ local[p].bounds = getDefaultMutationBounds
        /\ MapHas(local[p].features, "punchlineTiming")
        /\ MapGet(local[p].features, "punchlineTiming") = 1200
        /\ MapGet(resp[p].value.features, "punchlineTiming") = 1000
        /\ MapGet(resp[p].value.features, "setupDuration") = 900
        /\ MapGet(resp[p].value.mutationLog, "punchlineTiming").delta = 0 - 200

----------------------------------------------------------------------------
(* Claims about optimizeFeatures *)

ValueIn(features, name) ==
    IF \E j \in DOMAIN features : features[j].key = name
    THEN MapGet(features, name) ELSE 0

UnitClamp(v) == IF v < 0 THEN 0 ELSE IF v > 1000 THEN 1000 ELSE v

\* C22: optimizeFeatures never throws, and for each feature name
\* featureNames[i], with v its value in currentFeatures (0 when missing),
\* the gains are coefficients[i] * (clamp(v + stepSize) - v) and
\* coefficients[i] * (clamp(v - stepSize) - v); a suggestion for the feature
\* is returned exactly when the larger gain is positive, with that gain.
C22_IndependentPerturbation ==
    \A p \in Procs :
        (pc[p] = "returned" /\ local[p].op = "optimizeFeatures")
        => LET call == local[p]
               result == resp[p].value
           IN /\ result.status = "returned"
              /\ \A i \in DOMAIN call.featureNames :
                    LET v == ValueIn(call.currentFeatures, call.featureNames[i])
                        up == call.coefficients[i] * (UnitClamp(v + call.stepSize) - v)
                        down == call.coefficients[i] * (UnitClamp(v - call.stepSize) - v)
                        larger == IF up > down THEN up ELSE down
                        found == {k \in DOMAIN result.suggestions :
                                     result.suggestions[k].featureName
                                        = call.featureNames[i]}
                    IN /\ Cardinality(found) = (IF larger > 0 THEN 1 ELSE 0)
                       /\ \A k \in found :
                             /\ result.suggestions[k].predictedGain = larger
                             /\ result.suggestions[k].currentValue = v

----------------------------------------------------------------------------
(* Claims about computeAMI *)

\* The score of a layer in the object given, 0 for an absent layer.
LayerScore(signals, layer) ==
    IF \E i \in DOMAIN signals : signals[i].key = layer
    THEN signals[CHOOSE i \in DOMAIN signals : signals[i].key = layer].value
    ELSE 0

\* C23: computeAMI gives the stage of the first matching rule: cultural >
\* 0.6 and search < 0.3: early_noise; search > 0.5: search_growth;
\* marketplace > 0.5: buyer_interest; media > 0.6: media_amplification;
\* else early_noise, an absent layer counting as 0; and ami is
\* 0.2 cultural + 0.3 search + 0.25 marketplace + 0.25 media limited to
\* [0, 1].
C23_StageByFirstRule ==
    \A p \in Procs :
        (pc[p] = "returned" /\ local[p].op = "computeAMI")
        => LET signals == local[p].layerSignals
               cultural == LayerScore(signals, 1)
               search == LayerScore(signals, 2)
               marketplace == LayerScore(signals, 3)
               media == LayerScore(signals, 4)
               sum == 20 * cultural + 30 * search + 25 * marketplace + 25 * media
               result == resp[p].value
           IN /\ (cultural > 600 /\ search < 300) => result.stage = "early_noise"
              /\ (~(cultural > 600 /\ search < 300) /\ search > 500)
                    => result.stage = "search_growth"
              /\ (~(cultural > 600 /\ search < 300) /\ search <= 500
                    /\ marketplace > 500) => result.stage = "buyer_interest"
              /\ (~(cultural > 600 /\ search < 300) /\ search <= 500
                    /\ marketplace <= 500 /\ media > 600)
                    => result.stage = "media_amplification"
              /\ (cultural <= 600 /\ search <= 500 /\ marketplace <= 500
                    /\ media <= 600) => result.stage = "early_noise"
              /\ signals = <<>> => result.stage = "early_noise"
              /\ result.ami = (IF sum < 0 THEN 0
                               ELSE IF sum > 100000 THEN 1000000 ELSE 10 * sum)

\* computeAMI({1: 0.8, 2: 0.1, 3: 0, 4: 0}) has returned early_noise, with
\* ami 0.19.
C23_Witness ==
    \E p \in Procs :
        /\ pc[p] = "returned"
        /\ local[p].op = "computeAMI"
        /\ local[p].layerSignals
              = <<[key |-> 1, value |-> 800], [key |-> 2, value |-> 100],
                  [key |-> 3, value |-> 0], [key |-> 4, value |-> 0]>>
        /\ resp[p].value.stage = "early_noise"
        /\ resp[p].value.ami = 190000

----------------------------------------------------------------------------
(* Claims about computePearsonCorrelation *)

IsConstant(s) == \A i, j \in DOMAIN s : s[i] = s[j]

\* y[i] = a x[i] + b for all i, with a = slope.num / slope.den.
IsLinearIn(y, x, slope) ==
    /\ Len(x) = Len(y)
    /\ \A i, j \in DOMAIN x :
          (y[i].num * y[j].den - y[j].num * y[i].den) * x[i].den * x[j].den * slope.den
             = slope.num * (x[i].num * x[j].den - x[j].num * x[i].den)
                 * y[i].den * y[j].den

Slopes == {Fraction(n, d) : n \in 1..4, d \in 1..4}

\* C25: computePearsonCorrelation(x, y) is 0 when the lengths differ, when
\* the input is empty and when either series is constant; otherwise it lies
\* in [-1, 1], is 1 when y is an increasing linear function of x, -1 when it
\* is a decreasing one, and is the same for (y, x).
C25_PearsonContract ==
    \A p \in Procs :
        (pc[p] = "returned" /\ local[p].op = "computePearsonCorrelation")
        => LET x == local[p].x
               y == local[p].y
               r == resp[p].value
           IN /\ (Len(x) # Len(y) \/ Len(x) = 0 \/ IsConstant(x) \/ IsConstant(y))
                    => r.num = 0
              /\ r.num <= r.den /\ 0 - r.den <= r.num
              /\ (~IsConstant(x) /\ \E a \in Slopes : IsLinearIn(y, x, a))
                    => r = [num |-> 1, den |-> 1]
              /\ (~IsConstant(x)
                    /\ \E a \in Slopes : IsLinearIn(y, x, [num |-> 0 - a.num, den |-> a.den]))
                    => r = [num |-> 0 - 1, den |-> 1]
              /\ r = computePearsonCorrelation(y, x)

----------------------------------------------------------------------------
(* Claims about checkPatternRetirement *)

\* C26: checkPatternRetirement returns retired = false with
\* underperformanceStdDev 0 when there are fewer than 5 predictions, fewer
\* than 5 with an actual value, or when the actual values have no spread;
\* otherwise it retires exactly when |mean(predicted) - mean(actual)| exceeds
\* 1.5 standard deviations of the actual values, the two means and the
\* deviation being taken over the predictions that have an actual value.
C26_RetirementRule ==
    \A p \in Procs :
        (pc[p] = "returned" /\ local[p].op = "checkPatternRetirement")
        => LET validated == SelectSeq(local[p].predictions, Validated)
               actualValues == ActualValuesOf(validated)
               spread == VarianceTimesCountSquared(actualValues)
               difference == PredictedTotal(validated) - SumSeq(actualValues)
               result == resp[p].value
           IN IF \/ Len(local[p].predictions) < 5
                 \/ Len(validated) < 5
                 \/ spread = 0
              THEN /\ ~result.retired
                   /\ result.underperformanceStdDev.difference.num = 0
              ELSE result.retired <=> (4 * difference * difference > 9 * spread)

----------------------------------------------------------------------------
(* Claims about findCrossLayerPatterns *)

ConfidenceInRange(pattern) ==
    /\ pattern.confidence.num >= 0
    /\ pattern.confidence.num <= pattern.confidence.den

ConsecutivePattern(pattern, layers) ==
    /\ pattern.targetLayer = pattern.sourceLayer + 1
    /\ ConfidenceInRange(pattern)

\* The target layer is the next layer of the input above the source layer.
NeighbouringPattern(pattern, layers) ==
    /\ pattern.targetLayer > pattern.sourceLayer
    /\ \E i, j \in DOMAIN layers :
          layers[i] = pattern.sourceLayer /\ layers[j] = pattern.targetLayer
    /\ \A i \in DOMAIN layers :
          ~(pattern.sourceLayer < layers[i] /\ layers[i] < pattern.targetLayer)
    /\ ConfidenceInRange(pattern)

OnePerPair(patterns) ==
    \A i, j \in DOMAIN patterns :
        (patterns[i].sourceLayer = patterns[j].sourceLayer
            /\ patterns[i].targetLayer = patterns[j].targetLayer) => i = j

\* A step of findCrossLayerPatterns: what it returns and has persisted is
\* made of patterns that satisfy Pattern, one per pair; and when an insert
\* settles, stored or not, the pattern stays in the results and the next
\* pair is tested, or the results are returned when there is none.
PatternStep(p, Pattern(_, _)) ==
    /\ (pc'[p] = "returned" /\ local'[p].op = "findCrossLayerPatterns")
          => /\ resp'[p].status = "returned"
             /\ \A i \in DOMAIN resp'[p].value :
                   Pattern(resp'[p].value[i], local'[p].layers)
             /\ OnePerPair(resp'[p].value)
    /\ (pc'[p] \in {"awaitPatternInsert", "returned"}
            /\ local'[p].op = "findCrossLayerPatterns")
          => \A i \in DOMAIN crossLayerPatterns' :
                Pattern(crossLayerPatterns'[i], local'[p].layers)
    /\ (pc[p] = "awaitPatternInsert" /\ (pc'[p] # pc[p] \/ local'[p] # local[p]))
          => /\ SubSeq(local'[p].results, 1, Len(local[p].results)) = local[p].results
             /\ IF local[p].i + 1 < Len(local[p].layers)
                THEN /\ pc'[p] = "awaitPatternInsert"
                     /\ Len(local'[p].results) = Len(local[p].results) + 1
                ELSE /\ pc'[p] = "returned"
                     /\ resp'[p].value = local[p].results

----------------------------------------------------------------------------
(* Claims about the outcome of fetchSignal *)

\* A call for (name, keyword) finds the source registered and rate-limited.
CallRateLimited(name, keyword) ==
    /\ getSignalSource(name).name # Null
    /\ isRateLimited(name, keyword, getSignalSource(name).updateFrequency)

ReturnsNothing(p) ==
    /\ pc'[p] = "settled"
    /\ local'[p].results = local[p].results
    /\ Len(local'[p].log) = Len(local[p].log) + 1
    /\ UNCHANGED <<externalSignals, lastFetchedMap>>

StoresSignal(p) ==
    /\ pc[p] = "persist"
    /\ pc'[p] = "settled"
    /\ externalSignals' =
          Append(externalSignals,
                 [sourceName |-> local[p].source.name, layer |-> local[p].source.layer,
                  keyword |-> local[p].keyword, fetchedAt |-> local[p].fetchedAt])
    /\ getRateLimitKey(local[p].source.name, local[p].keyword) \in DOMAIN lastFetchedMap'
    /\ lastFetchedMap'[getRateLimitKey(local[p].source.name, local[p].keyword)]
          = local[p].fetchedAt
    /\ Len(local'[p].results) = Len(local[p].results) + 1

\* C27: fetchSignal stores an ExternalSignal and records the last-fetched
\* time of (source, keyword) exactly when the source is registered, the call
\* is not rate-limited and fetch, normalisation and insert complete: a call
\* goes on to the fetch only for a registered source that is not
\* rate-limited, and only the completed insert stores the signal and the
\* time.  A call for an unknown source and a call in which a step throws
\* return nothing, settle without an error, and leave the last-fetched map as
\* it is, so that the next call for the same source and keyword is not
\* rate-limited.
C27_FetchSignalOutcome ==
    [][/\ (externalSignals' # externalSignals \/ lastFetchedMap' # lastFetchedMap)
             => \E p \in Procs : StoresSignal(p)
       /\ \A p \in Procs :
             /\ (pc[p] = "idle" /\ pc'[p] = "fetch")
                   => /\ MapHas(signalSourceRegistry, local'[p].sources[1])
                      /\ ~CallRateLimited(local'[p].sources[1], local'[p].keyword)
             /\ (pc[p] = "idle" /\ pc'[p] = "settled")
                   => /\ Len(local'[p].results) = 0
                      /\ UNCHANGED <<externalSignals, lastFetchedMap>>
                      /\ \/ CallRateLimited(local'[p].sources[1], local'[p].keyword)
                         \/ ~MapHas(signalSourceRegistry, local'[p].sources[1])
             /\ (pc[p] = "fetch" /\ pc'[p] = "settled")
                   => /\ ReturnsNothing(p)
                      /\ ~CallRateLimited(local[p].sources[1], local[p].keyword)'
             /\ (pc[p] = "persist" /\ pc'[p] = "settled")
                   => \/ StoresSignal(p)
                      \/ /\ ReturnsNothing(p)
                         /\ ~CallRateLimited(local[p].sources[1], local[p].keyword)'
             /\ (pc[p] = "settled" /\ pc'[p] = "idle")
                   => /\ resp'[p].status = "signal"
                      /\ resp'[p].results = Len(local[p].results)
      ]_vars

----------------------------------------------------------------------------
(* Claims about the drift route *)

\* The logs of a dataset in the order of their creation.
LogsOfDataset(datasetId) ==
    LET OfDataset(log) == log.datasetId = datasetId
    IN SelectSeq(predictionLogs, OfDataset)

Reversed(s) == [i \in DOMAIN s |-> s[Len(s) + 1 - i]]

\* C28: getDrift of a dataset evaluates the drift rules on the 10 most
\* recently created prediction logs of the dataset: what it answers is what
\* the rules give for these ten logs (read oldest first or newest first), so
\* that a log with 10 or more newer logs has no influence and each of the 10
\* newest has.
C28_TenNewestLogs ==
    \A p \in Procs :
        (pc[p] = "idle" /\ resp[p].status = "json")
        => LET logs == LogsOfDataset(local[p].datasetId)
               newest == MappedLogs(SliceLast(logs, DefaultWindowSize))
           IN IF logs = <<>> THEN resp[p].value = NoDrift
              ELSE resp[p].value \in {DriftChecks(newest), DriftChecks(Reversed(newest))}

----------------------------------------------------------------------------
(* Claims about the correlation route *)

\* The layers that have stored signals for the keyword.
LayersWithSignals(keyword) ==
    {externalSignals[i].layer :
        i \in {j \in DOMAIN externalSignals : externalSignals[j].keyword = keyword}}

\* C29: detectCorrelations(keyword) returns one CrossLayerPattern for each
\* pair of neighbouring layers among the layers that have stored signals for
\* the keyword, and so a non-empty result as soon as two layers have.
C29_PatternPerLayerPair ==
    \A p \in Procs :
        (pc[p] = "returned" /\ local[p].op = "detectCorrelations")
        => LET layers == LayersWithSignals(local[p].request)
               patterns == resp[p].value
               Neighbours(a, b) ==
                   /\ a \in layers /\ b \in layers /\ a < b
                   /\ ~\E c \in layers : a < c /\ c < b
           IN /\ \A a, b \in layers :
                    Neighbours(a, b)
                    => Cardinality({i \in DOMAIN patterns :
                                       /\ patterns[i].sourceLayer = a
                                       /\ patterns[i].targetLayer = b}) = 1
              /\ \A i \in DOMAIN patterns :
                    Neighbours(patterns[i].sourceLayer, patterns[i].targetLayer)
              /\ Cardinality(layers) >= 2 => patterns # <<>>

----------------------------------------------------------------------------
(* Claims about the predict route *)

\* C30: predict on a dataset without a PatternModel reports that no model
\* was found and creates no snapshot; otherwise the call creates exactly one
\* locked snapshot whose modelId and coefficientsUsed are those of the latest
\* model of the dataset at the time of the call, whose featureVector has one
\* entry per feature name of the model in their order, and whose
\* predictedValue and predictedTier are the values answered to the caller.
\* No step changes a snapshot that exists, a later training included.
C30_SnapshotOfLatestModel ==
    [][/\ \A i \in DOMAIN modelSnapshots :
             /\ i \in DOMAIN modelSnapshots'
             /\ modelSnapshots'[i] = modelSnapshots[i]
       /\ Len(modelSnapshots') # Len(modelSnapshots)
             => \E p \in Procs : pc[p] = "predict_insert" /\ pc'[p] = "idle"
       /\ \A p \in Procs :
             /\ (pc[p] = "predict_model" /\ pc'[p] # pc[p])
                   => IF \A i \in DOMAIN patternModels :
                             patternModels[i].datasetId # local[p].datasetId
                      THEN /\ resp'[p].status = "404"
                           /\ pc'[p] = "idle"
                           /\ UNCHANGED modelSnapshots
                      ELSE /\ pc'[p] = "predict_records"
                           /\ patternModels[local'[p].modelId].datasetId
                                 = local[p].datasetId
                           /\ \A i \in DOMAIN patternModels :
                                 patternModels[i].datasetId = local[p].datasetId
                                 => i <= local'[p].modelId
             /\ (pc[p] = "predict_insert" /\ pc'[p] # pc[p])
                   => LET snapshot == modelSnapshots'[Len(modelSnapshots')]
                          model == patternModels[local[p].modelId]
                      IN /\ Len(modelSnapshots') = Len(modelSnapshots) + 1
                         /\ resp'[p].snapshotId = Len(modelSnapshots')
                         /\ snapshot.isLocked
                         /\ snapshot.modelId = local[p].modelId
                         /\ snapshot.coefficientsUsed = model.coefficients
                         /\ Len(snapshot.featureVector) = Len(model.featureNames)
                         /\ snapshot.featureVector = resp'[p].featureVector
                         /\ snapshot.predictedValue = resp'[p].predictedValue
                         /\ snapshot.predictedTier = resp'[p].predictedTier
      ]_vars

============================================================================
